---- MODULE Spec2Model ----
(***************************************************************************)
(* A model of pdfdancer-mcp (src/src/index.ts): the base-URL resolution at *)
(* module load, the callApi request helper, the response formatters, and   *)
(* the tools registered on the MCP server with their zod input schemas.    *)
(*                                                                         *)
(* Strings are sequences of atoms (TLA+ strings): an atom is a single      *)
(* character of an input, or a literal piece of a template.  Concatenation *)
(* is \o, and "text contains s" is Contains(text, s).                      *)
(*                                                                         *)
(* JavaScript values are records tagged by t: undefined, null, string,     *)
(* number, object (an ordered list of <<key, value>>) and array.           *)
(***************************************************************************)
EXTENDS Integers, Sequences, FiniteSets, TLC

VARIABLES
    env,        \* process.env: the two variables read at module load
    phase,      \* "boot" | "serving" | "exited"
    apiBase,    \* the URL parsed at module load (NoUrl before and on failure)
    exitCode,   \* process exit status (-1 while running)
    stderr,     \* what console.error printed, or <<>>
    pending,    \* invocations suspended at await fetch, in arrival order
    last,       \* the most recently completed invocation
    failedBefore \* an invocation before last ended in an error result

vars == <<env, phase, apiBase, exitCode, stderr, pending, last, failedBefore>>

(***************************************************************************)
(* Bounds of the model.                                                    *)
(***************************************************************************)
MaxInFlight == 1

(***************************************************************************)
(* Values.                                                                 *)
(***************************************************************************)
Undef == [t |-> "undefined"]
Null == [t |-> "null"]
Str(s) == [t |-> "string", s |-> s]
\* A number n, or n + 1/2 when half is TRUE (a non-integer).
Num(n) == [t |-> "number", n |-> n, half |-> FALSE]
NumHalf(n) == [t |-> "number", n |-> n, half |-> TRUE]
Obj(fields) == [t |-> "object", fields |-> fields]
Arr(items) == [t |-> "array", items |-> items]


\* obj[key] of a JavaScript object: undefined when the key is absent.
Get(obj, key) ==
    IF obj.t = "object" /\ \E i \in 1..Len(obj.fields) : obj.fields[i][1] = key
    THEN obj.fields[CHOOSE i \in 1..Len(obj.fields) : obj.fields[i][1] = key][2]
    ELSE Undef

\* JavaScript truthiness.
Truthy(v) ==
    CASE v.t = "undefined" -> FALSE
      [] v.t = "null" -> FALSE
      [] v.t = "string" -> v.s # <<>>
      [] v.t = "number" -> ~(v.n = 0 /\ ~v.half)
      [] OTHER -> TRUE

\* s occurs in text as a contiguous run of atoms.
Contains(text, s) ==
    \E i \in 0..(Len(text) - Len(s)) :
        \A j \in 1..Len(s) : text[i + j] = s[j]

RECURSIVE Join(_, _)
\* parts.join(sep) for a sequence of strings.
Join(parts, sep) ==
    IF parts = <<>> THEN <<>>
    ELSE IF Len(parts) = 1 THEN parts[1]
    ELSE parts[1] \o sep \o Join(Tail(parts), sep)

\* String(value), and a value inside a template literal.
ToStr(v) ==
    CASE v.t = "string" -> v.s
      [] v.t = "number" -> IF v.half THEN <<ToString(v.n), ".5">> ELSE <<ToString(v.n)>>
      [] v.t = "undefined" -> <<"undefined">>
      [] v.t = "null" -> <<"null">>
      [] OTHER -> <<"[object Object]">>

(***************************************************************************)
(* JSON.stringify and JSON.parse.                                          *)
(***************************************************************************)
RECURSIVE Pad(_)
Pad(d) == IF d = 0 THEN <<>> ELSE <<"  ">> \o Pad(d - 1)

\* The grave accent, as one atom of a text.
Grave == "[grave]"

\* JSON.stringify of a string: the quotation mark, the backslash and the
\* control characters are written as escape sequences, between quotation
\* marks.
Quote(s) ==
    <<"\"">> \o
    [i \in 1..Len(s) |->
        CASE s[i] = "\"" -> "\\\""
          [] s[i] = "\\" -> "\\\\"
          [] s[i] = "\n" -> "\\n"
          [] s[i] = "\t" -> "\\t"
          [] OTHER -> s[i]]
    \o <<"\"">>

RECURSIVE Stringify(_, _, _)
\* JSON.stringify(v) when pretty is FALSE and JSON.stringify(v, null, 2) when
\* it is TRUE, at nesting depth d.  Object members whose value is undefined
\* are left out; an undefined array element is written null.  (At top level
\* JSON.stringify(undefined) is undefined, which a template prints so.)
Stringify(v, pretty, d) ==
    LET open(b) == IF pretty THEN <<b, "\n">> \o Pad(d + 1) ELSE <<b>>
        sep == IF pretty THEN <<",", "\n">> \o Pad(d + 1) ELSE <<",">>
        close(b) == IF pretty THEN <<"\n">> \o Pad(d) \o <<b>> ELSE <<b>>
        colon == IF pretty THEN <<"\"", ": ">> ELSE <<"\"", ":">>
    IN  CASE v.t = "string" -> Quote(v.s)
          [] v.t = "number" -> ToStr(v)
          [] v.t = "null" -> <<"null">>
          [] v.t = "undefined" -> <<"undefined">>
          [] v.t = "object" ->
                LET fs == SelectSeq(v.fields, LAMBDA f : f[2].t # "undefined")
                    members == [i \in 1..Len(fs) |->
                                  <<"\"", fs[i][1]>> \o colon
                                      \o Stringify(fs[i][2], pretty, d + 1)]
                IN  IF fs = <<>> THEN <<"{}">>
                    ELSE open("{") \o Join(members, sep) \o close("}")
          [] v.t = "array" ->
                LET elems == [i \in 1..Len(v.items) |->
                                IF v.items[i].t = "undefined" THEN <<"null">>
                                ELSE Stringify(v.items[i], pretty, d + 1)]
                IN  IF v.items = <<>> THEN <<"[]">>
                    ELSE open("[") \o Join(elems, sep) \o close("]")

\* One search hit with every optional field, and one with none (its
\* sectionTitle is null).
Result1 ==
    Obj(<< <<"id", Num(1)>>, <<"pageTitle", Str(<<"P">>)>>,
           <<"sectionTitle", Str(<<"S">>)>>, <<"sectionRoute", Str(<<"/", "r1">>)>>,
           <<"score", NumHalf(1)>> >>)
Result2 ==
    Obj(<< <<"id", Num(2)>>, <<"sectionTitle", Null>>,
           <<"sectionRoute", Str(<<"/", "r2">>)>> >>)

SearchResponse(results, total, query, took) ==
    Obj(<< <<"results", Arr(results)>>, <<"total", Num(total)>>,
           <<"query", Str(query)>>, <<"took", Num(took)>> >>)

ContentResponse(route, content) ==
    Obj(<< <<"route", Str(route)>>, <<"content", Str(content)>> >>)

\* The JSON documents the remote service answers with in this model.
JsonDocs ==
    { SearchResponse(<<>>, 0, <<"x">>, 5),
      SearchResponse(<<Result1, Result2>>, 2, <<"x">>, 42),
      ContentResponse(<<"/", "a">>, <<"# Title">>),
      Null }

\* The serialisation of each of them.
JsonTexts == [doc \in JsonDocs |-> Stringify(doc, FALSE, 0)]

\* JSON.parse(text): the document whose serialisation is text, or the
\* SyntaxError the parser throws.
JsonParse(text) ==
    IF \E doc \in JsonDocs : JsonTexts[doc] = text
    THEN [ok |-> TRUE, value |-> CHOOSE doc \in JsonDocs : JsonTexts[doc] = text]
    ELSE [ok |-> FALSE, error |-> <<"SyntaxError: ", "Unexpected token">>]

(***************************************************************************)
(* URLs.                                                                   *)
(***************************************************************************)
NoUrl == [origin |-> <<>>, pathname |-> <<>>, searchParams |-> <<>>]

Schemes == {"http://", "https://"}

\* new URL(raw) succeeds on an absolute URL: a scheme atom, then a host atom,
\* then the path atoms.
UrlValid(raw) == Len(raw) >= 2 /\ raw[1] \in Schemes

ParseUrl(raw) ==
    [origin |-> <<raw[1], raw[2]>>,
     pathname |-> IF Len(raw) > 2 THEN SubSeq(raw, 3, Len(raw)) ELSE <<"/">>,
     searchParams |-> <<>>]

\* The directory of a pathname: everything up to its last "/".
RECURSIVE DirOf(_)
DirOf(p) ==
    IF p = <<>> THEN <<"/">>
    ELSE IF p[Len(p)] = "/" THEN p
    ELSE DirOf(SubSeq(p, 1, Len(p) - 1))

\* A URL built on the built-in default endpoint instead of the base.
NewURL_default(path, base) ==
    IF UrlValid(path) THEN ParseUrl(path)
    ELSE [origin |-> <<"https://",
                       "docusaurus-cloudflare-search.michael-lahr-0b0.workers.dev">>,
          pathname |-> IF path # <<>> /\ path[1] = "/" THEN path
                       ELSE <<"/">> \o path,
          searchParams |-> <<>>]

\* new URL(path, base): an absolute URL replaces the base, a path starting
\* with "/" replaces the base's path, any other path is resolved against the
\* base's directory.  The base's query is dropped.
NewURL(path, base) ==
    IF UrlValid(path) THEN ParseUrl(path)
    ELSE [origin |-> base.origin,
          pathname |-> IF path # <<>> /\ path[1] = "/" THEN path
                       ELSE DirOf(base.pathname) \o path,
          searchParams |-> <<>>]

\* url.searchParams.set(key, value): replaces the first pair named key and
\* drops the others, or appends a new pair.
SearchParamsSet(params, key, value) ==
    IF \E i \in 1..Len(params) : params[i][1] = key
    THEN LET first == CHOOSE i \in 1..Len(params) :
                          /\ params[i][1] = key
                          /\ \A j \in 1..(i - 1) : params[j][1] # key
         IN  SelectSeq([i \in 1..Len(params) |->
                           IF i = first THEN <<key, value>> ELSE params[i]],
                       LAMBDA p : p[1] # key \/ p = <<key, value>>)
    ELSE Append(params, <<key, value>>)

\* A serialisation that writes every atom as it is.
EncodeAtom_raw(a) == a

\* application/x-www-form-urlencoded serialisation of one atom: a blank is
\* written +, and every character but the letters, the digits and * - . _
\* is percent-encoded.
EncodeAtom(a) ==
    CASE a = " " -> "+"
      [] a = "&" -> "%26"
      [] a = "+" -> "%2B"
      [] a = "=" -> "%3D"
      [] a = "/" -> "%2F"
      [] a = "$" -> "%24"
      [] a = ";" -> "%3B"
      [] a = "|" -> "%7C"
      [] a = "%" -> "%25"
      [] a = "(" -> "%28"
      [] a = ")" -> "%29"
      [] a = "\"" -> "%22"
      [] a = "'" -> "%27"
      [] a = "\\" -> "%5C"
      [] a = Grave -> "%60"
      [] a = "?" -> "%3F"
      [] a = "#" -> "%23"
      [] OTHER -> a

Encode(s) == [i \in 1..Len(s) |-> EncodeAtom(s[i])]

\* url.toString()
UrlToString(url) ==
    url.origin \o url.pathname \o
    ( IF url.searchParams = <<>> THEN <<>>
      ELSE <<"?">> \o
           Join([i \in 1..Len(url.searchParams) |->
                    Encode(<<url.searchParams[i][1]>>) \o <<"=">>
                        \o Encode(url.searchParams[i][2])],
                <<"&">>) )

(***************************************************************************)
(* The configuration resolver (module load).                               *)
(***************************************************************************)
DefaultBaseUrl ==
    <<"https://", "docusaurus-cloudflare-search.michael-lahr-0b0.workers.dev", "/">>

\* a || b: the empty string falls through as undefined and null do.
Coalesce_or(a, b) ==
    IF a.t \in {"undefined", "null"} \/ (a.t = "string" /\ a.s = <<>>) THEN b ELSE a

\* a ?? b
Coalesce(a, b) == IF a.t \in {"undefined", "null"} THEN b ELSE a

rawBaseUrl(e) ==
    Coalesce(e.DCS_BASE_URL,
             Coalesce(e.DOCUSAURUS_SEARCH_BASE_URL, Str(DefaultBaseUrl))).s

InvalidBaseUrlMessage(raw) ==
    <<"Invalid Docusaurus search base URL \"">> \o raw \o
    <<"\". Set ", "DCS_BASE_URL", " or ", "DOCUSAURUS_SEARCH_BASE_URL",
      " to a valid URL.">>

(***************************************************************************)
(* callApi.                                                                *)
(***************************************************************************)
NoOptions == [method |-> Undef, searchParams |-> Undef, body |-> Undef]

\* A truthiness test in place of the three comparisons: it drops 0 too.
KeepParam_truthy(value) == Truthy(value)

\* value !== undefined && value !== null && value !== ''
KeepParam(value) ==
    /\ value.t # "undefined"
    /\ value.t # "null"
    /\ ~(value.t = "string" /\ value.s = <<>>)

RECURSIVE SetParams(_, _)
\* Object.entries(options.searchParams).forEach(...)
SetParams(params, entries) ==
    IF entries = <<>> THEN params
    ELSE SetParams(IF KeepParam(entries[1][2])
                   THEN SearchParamsSet(params, entries[1][1], ToStr(entries[1][2]))
                   ELSE params,
                   Tail(entries))

\* The same request handed to fetch a second time, as a retry would.
CallApiRequests_twice(path, options, base) ==
    LET url0 == NewURL(path, base)
        url == IF Truthy(options.searchParams)
               THEN [url0 EXCEPT !.searchParams =
                                    SetParams(url0.searchParams,
                                              options.searchParams.fields)]
               ELSE url0
        method == Coalesce(options.method, Str(<<"GET">>)).s
        headers == << <<"Accept", <<"application/json">> >> >> \o
                   ( IF Truthy(options.body)
                     THEN << <<"Content-Type", <<"application/json">> >> >>
                     ELSE <<>> )
        body == IF Truthy(options.body) /\ method = <<"POST">>
                THEN Str(Stringify(options.body, FALSE, 0))
                ELSE Undef
        request == [url |-> url, method |-> method, headers |-> headers, body |-> body]
    IN  << request, request >>

\* The requests callApi hands to fetch: the part of callApi before its await.
CallApiRequests(path, options, base) ==
    LET url0 == NewURL(path, base)
        url == IF Truthy(options.searchParams)
               THEN [url0 EXCEPT !.searchParams =
                                    SetParams(url0.searchParams,
                                              options.searchParams.fields)]
               ELSE url0
        method == Coalesce(options.method, Str(<<"GET">>)).s
        headers == << <<"Accept", <<"application/json">> >> >> \o
                   ( IF Truthy(options.body)
                     THEN << <<"Content-Type", <<"application/json">> >> >>
                     ELSE <<>> )
        body == IF Truthy(options.body) /\ method = <<"POST">>
                THEN Str(Stringify(options.body, FALSE, 0))
                ELSE Undef
    IN  << [url |-> url, method |-> method, headers |-> headers, body |-> body] >>

\* What fetch can come back with: a rejection, or a response.
NetworkFailure ==
    [failed |-> TRUE, status |-> 0, statusText |-> <<>>, text |-> <<>>]

StatusText(status) ==
    CASE status = 200 -> <<"OK">>
      [] status = 404 -> <<"Not Found">>
      [] status = 500 -> <<"Internal Server Error">>
      [] OTHER -> <<>>

BodyTexts ==
    {<<>>, <<"boom">>} \cup {JsonTexts[doc] : doc \in JsonDocs}

\* A rejection; a 200 with any body; a 500 with an empty or a text body.
Responses ==
    {NetworkFailure} \cup
    { [failed |-> FALSE, status |-> 200, statusText |-> StatusText(200), text |-> b] :
        b \in BodyTexts }
    \cup
    { [failed |-> FALSE, status |-> 500, statusText |-> StatusText(500), text |-> b] :
        b \in {<<>>, <<"boom">>} }

\* response.ok
Ok(response) == response.status >= 200 /\ response.status <= 299

Return(value) == [kind |-> "return", value |-> value, message |-> <<>>]
Throw(message) == [kind |-> "throw", value |-> Undef, message |-> message]
NoOutcome == [kind |-> "none", value |-> Undef, message |-> <<>>]

\* The message without the body text or the reason phrase.
StatusErrorMessage_noReason(url, response) ==
    <<"Request to ">> \o UrlToString(url) \o
    <<" failed with status ", ToString(response.status)>>

\* The message of the error thrown for a response that is not ok.
StatusErrorMessage(url, response) ==
    <<"Request to ">> \o UrlToString(url) \o
    <<" failed with status ", ToString(response.status), ": ">> \o
    ( IF response.text # <<>> THEN response.text ELSE response.statusText )

\* The parser run on every text, the empty one included.
DecodeBody_alwaysParse(url, text) ==
    LET parsed == JsonParse(text)
    IN  IF parsed.ok THEN Return(parsed.value)
        ELSE Throw(<<"Failed to parse JSON response from ">> \o
                   UrlToString(url) \o <<": ">> \o parsed.error)

\* The body of an ok response: undefined for an empty text, else the parsed
\* JSON or the error thrown for a text that does not parse.
DecodeBody(url, text) ==
    IF text = <<>> THEN Return(Undef)
    ELSE LET parsed == JsonParse(text)
         IN  IF parsed.ok THEN Return(parsed.value)
             ELSE Throw(<<"Failed to parse JSON response from ">> \o
                        UrlToString(url) \o <<": ">> \o parsed.error)

\* A callApi that looks at the body before it looks at the status.
CallApiFinish_parseFirst(url, response) ==
    IF response.failed THEN Throw(<<"fetch failed">>)
    ELSE IF response.text = <<>> THEN Return(Undef)
    ELSE IF ~JsonParse(response.text).ok
    THEN Throw(<<"Failed to parse JSON response from ">> \o
               UrlToString(url) \o <<": ">> \o JsonParse(response.text).error)
    ELSE IF ~Ok(response) THEN Throw(StatusErrorMessage(url, response))
    ELSE Return(JsonParse(response.text).value)

\* The part of callApi after its await: the value it returns or the error it
\* throws, given what fetch settled with for the request to url.  A rejected
\* fetch propagates as it is.
CallApiFinish(url, response) ==
    IF response.failed THEN Throw(<<"fetch failed">>)
    ELSE IF ~Ok(response) THEN Throw(StatusErrorMessage(url, response))
    ELSE DecodeBody(url, response.text)

(***************************************************************************)
(* Response formatters.                                                    *)
(***************************************************************************)
\* Reading a property of undefined or null throws a TypeError.
Nullish(v) == v.t \in {"undefined", "null"}

TypeErrorMessage(v, key) ==
    <<"Cannot read properties of ", v.t, " (reading '", key, "')">>

\* The code fence of a markdown block (three grave accents in the source).
Fence == "[fence]"

formatJsonBlock(title, payload) ==
    title \o <<"\n", Fence, "json", "\n">> \o Stringify(payload, TRUE, 0)
          \o <<"\n", Fence>>

\* number.toFixed(3)
ToFixed3(v) == IF v.half THEN <<ToString(v.n), ".500">> ELSE <<ToString(v.n), ".000">>

\* The atoms string.trim() removes.
WhiteSpace == {" ", "\n", "\t"}

RECURSIVE TrimEnd(_)
TrimEnd(s) ==
    IF s # <<>> /\ s[Len(s)] \in WhiteSpace THEN TrimEnd(SubSeq(s, 1, Len(s) - 1)) ELSE s

RECURSIVE TrimStart(_)
TrimStart(s) == IF s # <<>> /\ s[1] \in WhiteSpace THEN TrimStart(Tail(s)) ELSE s

\* string.trim()
Trim(s) == TrimStart(TrimEnd(s))

MaxShown == 5

\* No cap on the results shown.
Slice5_all(items) == items

\* results.slice(0, 5)
Slice5(items) == SubSeq(items, 1, IF Len(items) < MaxShown THEN Len(items) ELSE MaxShown)

\* The title chosen with || in place of ??: an empty title falls through.
SummaryLine_truthyTitle(result, index) ==
    LET title == IF Truthy(Get(result, "pageTitle")) THEN Get(result, "pageTitle")
                 ELSE IF Truthy(Get(result, "sectionTitle"))
                 THEN Get(result, "sectionTitle")
                 ELSE Get(result, "sectionRoute")
        score == IF Get(result, "score").t = "number"
                 THEN <<"score=">> \o ToFixed3(Get(result, "score"))
                 ELSE <<>>
    IN  Trim(<<ToString(index), ".", " ">> \o ToStr(title) \o <<" ", "->", " ">>
             \o ToStr(Get(result, "sectionRoute")) \o <<" ">> \o score)

\* One ranked line of the summary ("->" stands for the arrow of the source;
\* each blank of the template is an atom of its own).
SummaryLine(result, index) ==
    LET title == Coalesce(Get(result, "pageTitle"),
                          Coalesce(Get(result, "sectionTitle"),
                                   Get(result, "sectionRoute")))
        score == IF Get(result, "score").t = "number"
                 THEN <<"score=">> \o ToFixed3(Get(result, "score"))
                 ELSE <<>>
    IN  Trim(<<ToString(index), ".", " ">> \o ToStr(title) \o <<" ", "->", " ">>
             \o ToStr(Get(result, "sectionRoute")) \o <<" ">> \o score)

\* The summary without the case of no results.
summarizeSearchResponse_noEmptyCase(data) ==
    LET results == Get(data, "results")
        shown == IF results.t = "array" THEN Slice5(results.items) ELSE <<>>
        lines == [i \in 1..Len(shown) |-> SummaryLine(shown[i], i)]
        summary == ToStr(Get(data, "total")) \o <<" result(s) for \"">>
                   \o ToStr(Get(data, "query")) \o <<"\" (showing ">>
                   \o <<ToString(Len(lines)), ", ">>
                   \o ToStr(Get(data, "took")) \o <<"ms).">>
    IN  summary \o <<"\n">> \o Join(lines, <<"\n">>)

\* summarizeSearchResponse(data), for data that is not undefined or null.
summarizeSearchResponse(data) ==
    LET results == Get(data, "results")
    IN  IF ~(results.t = "array" /\ Len(results.items) > 0)
        THEN <<"No matches for \"">> \o ToStr(Get(data, "query")) \o <<"\".">>
        ELSE LET shown == Slice5(results.items)
                 lines == [i \in 1..Len(shown) |-> SummaryLine(shown[i], i)]
                 summary == ToStr(Get(data, "total")) \o <<" result(s) for \"">>
                            \o ToStr(Get(data, "query")) \o <<"\" (showing ">>
                            \o <<ToString(Len(lines)), ", ">>
                            \o ToStr(Get(data, "took")) \o <<"ms).">>
             IN  summary \o <<"\n">> \o Join(lines, <<"\n">>)

\* The static help document, in the shape of the source's helpDocument.
helpDocument ==
    [title |-> <<"PDFDancer MCP helper">>,
     overview |-> <<"This MCP server gives coding agents high-fidelity access ...">>,
     sections |->
       << [heading |-> <<"Core documentation surfaces">>,
           items |-> << <<"- api-docs">>, <<"- client-typescript">>,
                        <<"- client-python">>, <<"- client-java">> >>],
          [heading |-> <<"Using this MCP server">>,
           items |-> << <<"- Set DCS_BASE_URL">>, <<"- Keep PDFDANCER_TOKEN">>,
                        <<"- Tools: ...">>, <<"- Call npx -y .">> >>],
          [heading |-> <<"Typical workflow for coding agents">>,
           items |-> << <<"1. Consult">>, <<"2. Use">>, <<"3. Exercise">>,
                        <<"4. Implant">> >>] >>,
     codeSamples |->
       << [language |-> <<"TypeScript">>, syntax |-> <<"ts">>,
           path |-> <<"pdfdancer-client-typescript/_main/README.md">>,
           description |-> <<"Open an existing PDF ...">>,
           snippet |-> <<"import { PDFDancer ...">>],
          [language |-> <<"Python">>, syntax |-> <<"python">>,
           path |-> <<"pdfdancer-client-python/_main/README.md">>,
           description |-> <<"Context-managed session ...">>,
           snippet |-> <<"from pathlib import Path ...">>],
          [language |-> <<"Java">>, syntax |-> <<"java">>,
           path |-> <<"pdfdancer-client-java/README.md">>,
           description |-> <<"Gradle/Maven friendly snippet ...">>,
           snippet |-> <<"import com.pdfdancer ...">>] >>]

renderHelpDocument(doc) ==
    LET sections ==
            Join([i \in 1..Len(doc.sections) |->
                     <<"### ">> \o doc.sections[i].heading \o <<"\n">>
                         \o Join(doc.sections[i].items, <<"\n">>)],
                 <<"\n", "\n">>)
        samples ==
            Join([i \in 1..Len(doc.codeSamples) |->
                     LET sample == doc.codeSamples[i]
                     IN  <<"### ">> \o sample.language \o <<" sample (">>
                             \o sample.path \o <<")", "\n">> \o sample.description
                             \o <<"\n", Fence>> \o sample.syntax \o <<"\n">>
                             \o sample.snippet \o <<"\n", Fence>>],
                 <<"\n", "\n">>)
    IN  Trim(<<"# ">> \o doc.title \o <<"\n", "\n">> \o doc.overview
                 \o <<"\n", "\n">> \o sections \o <<"\n", "\n">>
                 \o <<"## SDK code samples", "\n", "\n">> \o samples)

\* helpDocument as the structured content of the help tool.
helpDocumentValue ==
    Obj(<< <<"title", Str(helpDocument.title)>>,
           <<"overview", Str(helpDocument.overview)>>,
           <<"sections",
             Arr([i \in 1..Len(helpDocument.sections) |->
                    Obj(<< <<"heading", Str(helpDocument.sections[i].heading)>>,
                           <<"items",
                             Arr([j \in 1..Len(helpDocument.sections[i].items) |->
                                    Str(helpDocument.sections[i].items[j])])>> >>)])>>,
           <<"codeSamples",
             Arr([i \in 1..Len(helpDocument.codeSamples) |->
                    Obj(<< <<"language", Str(helpDocument.codeSamples[i].language)>>,
                           <<"syntax", Str(helpDocument.codeSamples[i].syntax)>>,
                           <<"path", Str(helpDocument.codeSamples[i].path)>>,
                           <<"description", Str(helpDocument.codeSamples[i].description)>>,
                           <<"snippet", Str(helpDocument.codeSamples[i].snippet)>> >>)])>> >>)

(***************************************************************************)
(* The tools registered in main(): input schemas.                          *)
(***************************************************************************)
RegisteredTools ==
    <<"hello-world", "help", "dcs-api-info", "dcs-search", "dcs-list-indexes",
      "dcs-list-content", "dcs-get-content">>

IsRegistered(name) == \E i \in 1..Len(RegisteredTools) : RegisteredTools[i] = name

Issue(path, message) == [path |-> path, message |-> message]

\* zod's message for a value of the wrong type; a missing value is "Required".
InvalidType(expected, v) ==
    IF v.t = "undefined" THEN <<"Required">>
    ELSE <<"Expected ", expected, ", received ", v.t>>

\* z.string().optional()
OptionalStringIssues(path, v) ==
    IF v.t \in {"undefined", "string"} THEN <<>>
    ELSE <<Issue(path, InvalidType("string", v))>>

\* query as an optional string of any length.
QueryIssues_optional(v) ==
    IF v.t \in {"undefined", "string"} THEN <<>>
    ELSE <<Issue("query", InvalidType("string", v))>>

\* query: z.string().min(1, 'query is required')
QueryIssues(v) ==
    IF v.t # "string" THEN <<Issue("query", InvalidType("string", v))>>
    ELSE IF Len(v.s) < 1 THEN <<Issue("query", <<"query is required">>)>>
    ELSE <<>>

MinResults == 1
MaxResultsCap == 100

\* An exclusive upper bound.
Leq_exclusive(v, k) == v.n < k

\* v >= k and v <= k for a number v that may be n + 1/2.
Geq(v, k) == v.n >= k
Leq(v, k) == IF v.half THEN v.n < k ELSE v.n <= k

\* maxResults: z.number().int().min(1).max(100).optional()
MaxResultsIssues(v) ==
    IF v.t = "undefined" THEN <<>>
    ELSE IF v.t # "number" THEN <<Issue("maxResults", InvalidType("number", v))>>
    ELSE ( IF v.half
           THEN <<Issue("maxResults", <<"Expected ", "integer", ", received ", "float">>)>>
           ELSE <<>> ) \o
         ( IF ~Geq(v, MinResults)
           THEN <<Issue("maxResults",
                        <<"Number must be greater than or equal to ", ToString(MinResults)>>)>>
           ELSE <<>> ) \o
         ( IF ~Leq(v, MaxResultsCap)
           THEN <<Issue("maxResults",
                        <<"Number must be less than or equal to ", ToString(MaxResultsCap)>>)>>
           ELSE <<>> )

\* method: z.enum(['get', 'post']).default('get')
MethodIssues(v) ==
    IF v.t = "undefined" \/ v \in {Str(<<"get">>), Str(<<"post">>)} THEN <<>>
    ELSE <<Issue("method", <<"Invalid enum value. Expected 'get' | 'post'">>)>>

\* The pattern without its anchor: a "/" anywhere.
StartsWithSlash_unanchored(s) == \E i \in 1..Len(s) : s[i] = "/"

\* /^\/.*/ matches exactly the strings that start with "/".
StartsWithSlash(s) == s # <<>> /\ s[1] = "/"

\* route: z.string().regex(/^\/.*/, 'route must start with /')
RouteIssues(v) ==
    IF v.t # "string" THEN <<Issue("route", InvalidType("string", v))>>
    ELSE IF ~StartsWithSlash(v.s) THEN <<Issue("route", <<"route must start with /">>)>>
    ELSE <<>>

\* The issues zod reports for args against the tool's inputSchema.
SchemaIssues(tool, args) ==
    CASE tool = "hello-world" -> OptionalStringIssues("name", Get(args, "name"))
      [] tool = "dcs-search" ->
            QueryIssues(Get(args, "query")) \o
            OptionalStringIssues("tag", Get(args, "tag")) \o
            MaxResultsIssues(Get(args, "maxResults")) \o
            MethodIssues(Get(args, "method"))
      [] tool = "dcs-get-content" -> RouteIssues(Get(args, "route"))
      [] OTHER -> <<>>

\* The parsed arguments the handler receives: the schema's keys only, with
\* the schema's defaults.
SchemaParse(tool, args) ==
    CASE tool = "hello-world" -> Obj(<< <<"name", Get(args, "name")>> >>)
      [] tool = "dcs-search" ->
            Obj(<< <<"query", Get(args, "query")>>,
                   <<"tag", Get(args, "tag")>>,
                   <<"maxResults", Get(args, "maxResults")>>,
                   <<"method", IF Get(args, "method").t = "undefined"
                               THEN Str(<<"get">>) ELSE Get(args, "method")>> >>)
      [] tool = "dcs-get-content" -> Obj(<< <<"route", Get(args, "route")>> >>)
      [] OTHER -> Obj(<<>>)

(***************************************************************************)
(* The tools registered in main(): handlers.                               *)
(***************************************************************************)
TextBlock(text) == [type |-> "text", text |-> text]

Resolve(content, structuredContent) ==
    [kind |-> "resolve",
     result |-> [isError |-> FALSE, content |-> content,
                 structuredContent |-> structuredContent],
     message |-> <<>>]
Reject(message) ==
    [kind |-> "reject",
     result |-> [isError |-> FALSE, content |-> <<>>, structuredContent |-> Undef],
     message |-> message]

\* A handler that returns without calling the API, or the one callApi call
\* it awaits.
Immediate(settled) ==
    [kind |-> "result", settled |-> settled, path |-> <<>>, options |-> NoOptions]
Call(path, options) ==
    [kind |-> "call", settled |-> Reject(<<>>), path |-> path, options |-> options]

\* A help text that names the most recent invocation.
HelpStart_stateful(data) ==
    Immediate(Resolve(<< TextBlock(Str(renderHelpDocument(helpDocument)
                                         \o <<"\n", "Last tool: ", last.tool>>)) >>,
                      helpDocumentValue))

\* The handler of help: the rendered help document and the document itself.
HelpStart(data) ==
    Immediate(Resolve(<< TextBlock(Str(renderHelpDocument(helpDocument))) >>,
                      helpDocumentValue))

\* A search that goes out as a GET whatever the method argument.
SearchStart_alwaysGet(data) ==
    Call(<<"/", "search">>,
         [method |-> Undef,
          searchParams |->
              Obj(<< <<"q", Get(data, "query")>>,
                     <<"tag", Get(data, "tag")>>,
                     <<"maxResults", Get(data, "maxResults")>> >>),
          body |-> Undef])

\* A search handler that answers a search equal to the last one, when that
\* one succeeded, with the result it kept.
SearchStart_cached(data) ==
    LET usePost == Get(data, "method") = Str(<<"post">>)
        payload == Obj(<< <<"query", Get(data, "query")>>,
                          <<"tag", Get(data, "tag")>>,
                          <<"maxResults", Get(data, "maxResults")>> >>)
    IN  IF /\ last.kind = "tool" /\ last.tool = "dcs-search" /\ last.data = data
           /\ last.requests # <<>> /\ ~last.result.isError
        THEN Immediate(Resolve(last.result.content, last.result.structuredContent))
        ELSE IF usePost
        THEN Call(<<"/", "search">>,
                  [method |-> Str(<<"POST">>), searchParams |-> Undef,
                   body |-> payload])
        ELSE Call(<<"/", "search">>,
                  [method |-> Undef,
                   searchParams |->
                       Obj(<< <<"q", Get(data, "query")>>,
                              <<"tag", Get(data, "tag")>>,
                              <<"maxResults", Get(data, "maxResults")>> >>),
                   body |-> Undef])

\* The handler of dcs-search up to its await: a POST with the payload as its
\* body when method is post, else a GET with the payload as its query.
SearchStart(data) ==
    LET usePost == Get(data, "method") = Str(<<"post">>)
        payload == Obj(<< <<"query", Get(data, "query")>>,
                          <<"tag", Get(data, "tag")>>,
                          <<"maxResults", Get(data, "maxResults")>> >>)
    IN  IF usePost
        THEN Call(<<"/", "search">>,
                  [method |-> Str(<<"POST">>), searchParams |-> Undef,
                   body |-> payload])
        ELSE Call(<<"/", "search">>,
                  [method |-> Undef,
                   searchParams |->
                       Obj(<< <<"q", Get(data, "query")>>,
                              <<"tag", Get(data, "tag")>>,
                              <<"maxResults", Get(data, "maxResults")>> >>),
                   body |-> Undef])

\* The handler of tool up to its first await, on the parsed arguments.
HandlerStart(tool, data) ==
    CASE tool = "hello-world" ->
            Immediate(Resolve(
                << TextBlock(Str(
                     IF Truthy(Get(data, "name"))
                     THEN <<"Hello, ">> \o Get(data, "name").s
                              \o <<"! Thanks for trying pdfdancer-mcp.">>
                     ELSE <<"Hello from pdfdancer-mcp! Pass a name to personalize this message.">>)) >>,
                Undef))
      [] tool = "help" -> HelpStart(data)
      [] tool = "dcs-api-info" ->
            Call(<<"/">>, NoOptions)
      [] tool = "dcs-search" -> SearchStart(data)
      [] tool = "dcs-list-indexes" ->
            Call(<<"/", "indexes">>,
                 NoOptions)
      [] tool = "dcs-list-content" ->
            Call(<<"/", "list-content">>,
                 NoOptions)
      [] tool = "dcs-get-content" ->
            Call(<<"/", "content">>,
                 [method |-> Undef,
                  searchParams |-> Obj(<< <<"route", Get(data, "route")>> >>),
                  body |-> Undef])

\* A listing handler that answers with the JSON text without its title and
\* its fence.
ListingFinish_untitled(title, value) ==
    Resolve(<< TextBlock(Str(Stringify(value, TRUE, 0))) >>, value)

\* What a handler whose whole answer is one titled JSON block returns for the
\* value callApi gave it: the tools dcs-api-info, dcs-list-indexes and
\* dcs-list-content.
ListingFinish(title, value) ==
    Resolve(<< TextBlock(Str(formatJsonBlock(title, value))) >>, value)

\* A search handler that takes a missing response for one without matches.
SearchFinish_tolerant(value) ==
    IF Nullish(value)
    THEN Resolve(<< TextBlock(Str(<<"No matches.">>)) >>, value)
    ELSE Resolve(
           << TextBlock(Str(
                summarizeSearchResponse(value) \o <<"\n", "\n">>
                    \o formatJsonBlock(<<"Raw search response">>, value))) >>,
           value)

\* A search handler that answers with the summary alone.
SearchFinish_summaryOnly(value) ==
    IF Nullish(value)
    THEN Reject(TypeErrorMessage(value, "results"))
    ELSE Resolve(<< TextBlock(Str(summarizeSearchResponse(value))) >>, value)

\* The return of the dcs-search handler: the summary, a blank line and the raw
\* response in one text block.  Reading data.results of undefined or null
\* throws a TypeError, which rejects the handler's promise.
SearchFinish(value) ==
    IF Nullish(value)
    THEN Reject(TypeErrorMessage(value, "results"))
    ELSE Resolve(
           << TextBlock(Str(
                summarizeSearchResponse(value) \o <<"\n", "\n">>
                    \o formatJsonBlock(<<"Raw search response">>, value))) >>,
           value)

\* A content handler that answers with the JSON block alone.
ContentFinish_oneBlock(data, value) ==
    IF Nullish(value)
    THEN Reject(TypeErrorMessage(value, "content"))
    ELSE Resolve(
           << TextBlock(Str(formatJsonBlock(
                  <<"Content for ">> \o Get(data, "route").s, value))) >>,
           value)

\* The return of the dcs-get-content handler: the titled JSON block, then the
\* content member as a text block of its own.  Reading data.content of
\* undefined or null throws a TypeError.
ContentFinish(data, value) ==
    IF Nullish(value)
    THEN Reject(TypeErrorMessage(value, "content"))
    ELSE Resolve(
           << TextBlock(Str(formatJsonBlock(
                  <<"Content for ">> \o Get(data, "route").s, value))),
              TextBlock(Get(value, "content")) >>,
           value)

\* A handler that catches the error of callApi and answers with its message.
HandlerFinish_swallow(tool, data, outcome) ==
    Resolve(<< TextBlock(Str(outcome.message)) >>, outcome.value)

\* The handler of tool after its await: outcome is what callApi returned or
\* threw.  A thrown error rejects the handler's promise.
HandlerFinish(tool, data, outcome) ==
    IF outcome.kind = "throw" THEN Reject(outcome.message)
    ELSE
    CASE tool = "dcs-api-info" -> ListingFinish(<<"API info">>, outcome.value)
      [] tool = "dcs-search" -> SearchFinish(outcome.value)
      [] tool = "dcs-list-indexes" -> ListingFinish(<<"Indexes">>, outcome.value)
      [] tool = "dcs-list-content" -> ListingFinish(<<"Content files">>, outcome.value)
      [] tool = "dcs-get-content" -> ContentFinish(data, outcome.value)

(***************************************************************************)
(* The dispatch of the MCP server the tools are registered on: an unknown  *)
(* tool, arguments that fail the input schema, and an error thrown by a    *)
(* handler each become an error result.                                    *)
(***************************************************************************)
ToolError(message) ==
    [isError |-> TRUE, content |-> << TextBlock(Str(message)) >>,
     structuredContent |-> Undef]

\* An answer that does not name the tool.
ToolNotFound_generic(name) == <<"MCP error -32602: ", "Tool", " not found">>

ToolNotFound(name) == <<"MCP error -32602: ", "Tool ", name, " not found">>

IssueText(issue) ==
    <<"{ \"path\": [\"", issue.path, "\"], \"message\": \"">> \o issue.message
        \o <<"\" }">>

InvalidArguments(name, issues) ==
    <<"MCP error -32602: ", "Invalid arguments for tool ", name, ": ", "[">>
        \o Join([i \in 1..Len(issues) |-> IssueText(issues[i])], <<",">>)
        \o <<"]">>

\* The result the client receives for a settled handler.
Settle(settled) ==
    IF settled.kind = "resolve" THEN settled.result ELSE ToolError(settled.message)

(***************************************************************************)
(* State.                                                                  *)
(***************************************************************************)
NoResponse ==
    [failed |-> FALSE, status |-> 0, statusText |-> <<>>, text |-> <<>>]
NoResult == [isError |-> FALSE, content |-> <<>>, structuredContent |-> Undef]
NoArgs == Obj(<<>>)

\* A completed invocation: what was called (a tool by the client, or callApi
\* directly), the callApi call it made, the requests handed to fetch, the
\* response, what callApi returned or threw, and the result sent back.
Completed(kind, tool, args, data, call, requests, response, outcome, result) ==
    [kind |-> kind, tool |-> tool, args |-> args, data |-> data,
     path |-> call.path, options |-> call.options, requests |-> requests,
     response |-> response, outcome |-> outcome, result |-> result]

NoLast ==
    Completed("none", "", NoArgs, NoArgs, [path |-> <<>>, options |-> NoOptions],
              <<>>, NoResponse, NoOutcome, NoResult)

\* An invocation suspended at the await of fetch.
Suspended(kind, tool, args, data, call, requests) ==
    [kind |-> kind, tool |-> tool, args |-> args, data |-> data,
     path |-> call.path, options |-> call.options, requests |-> requests]

\* PDFDANCER_DOCS_BASE_URL is the variable the README names; the resolver
\* does not read it.
EnvChoices ==
    [DCS_BASE_URL : {Undef, Str(<<>>), Str(<<"not a url">>),
                     Str(<<"http://", "localhost:8787">>)},
     DOCUSAURUS_SEARCH_BASE_URL : {Undef, Str(<<"https://", "docs.example", "/", "api", "/">>)},
     PDFDANCER_DOCS_BASE_URL : {Undef}]

\* The environments the server is started in: nothing set, and values the
\* URL parser rejects.
ServerEnvs ==
    { [DCS_BASE_URL |-> Undef, DOCUSAURUS_SEARCH_BASE_URL |-> Undef,
       PDFDANCER_DOCS_BASE_URL |-> Undef],
      [DCS_BASE_URL |-> Str(<<>>), DOCUSAURUS_SEARCH_BASE_URL |-> Undef,
       PDFDANCER_DOCS_BASE_URL |-> Undef] }

\* Environments that set the variable of the README, alone or with the
\* variables the resolver reads.
DocsEnvs ==
    [DCS_BASE_URL : {Undef, Str(<<"http://", "localhost:8787">>)},
     DOCUSAURUS_SEARCH_BASE_URL : {Undef},
     PDFDANCER_DOCS_BASE_URL : {Str(<<"https://", "your-docs-endpoint.com">>)}]

InitWith(envs) ==
    /\ env \in envs
    /\ phase = "boot"
    /\ apiBase = NoUrl
    /\ exitCode = -1
    /\ stderr = <<>>
    /\ pending = <<>>
    /\ last = NoLast
    /\ failedBefore = FALSE

\* A module load that prints the diagnostic and goes on to main().
Boot_noExit ==
    /\ phase = "boot"
    /\ LET raw == rawBaseUrl(env)
       IN  IF UrlValid(raw)
           THEN /\ apiBase' = ParseUrl(raw)
                /\ UNCHANGED stderr
           ELSE /\ apiBase' = NoUrl
                /\ stderr' = InvalidBaseUrlMessage(raw)
    /\ phase' = "serving"
    /\ UNCHANGED <<env, exitCode, pending, last, failedBefore>>

\* Module load: resolve the base URL, or print the diagnostic and exit(1).
\* main() then registers the tools and connects the transport.
Boot ==
    /\ phase = "boot"
    /\ LET raw == rawBaseUrl(env)
       IN  IF UrlValid(raw)
           THEN /\ apiBase' = ParseUrl(raw)
                /\ phase' = "serving"
                /\ UNCHANGED <<exitCode, stderr>>
           ELSE /\ phase' = "exited"
                /\ exitCode' = 1
                /\ stderr' = InvalidBaseUrlMessage(raw)
                /\ UNCHANGED apiBase
    /\ UNCHANGED <<env, pending, last, failedBefore>>

Remove(seq, i) == SubSeq(seq, 1, i - 1) \o SubSeq(seq, i + 1, Len(seq))

(***************************************************************************)
(* The server: tool invocations and the responses to their requests.       *)
(***************************************************************************)
SearchArgs(query, tag, maxResults, method) ==
    Obj(<< <<"query", query>>, <<"tag", tag>>, <<"maxResults", maxResults>>,
           <<"method", method>> >>)

Methods == {Undef, Str(<<"get">>), Str(<<"post">>)}

\* Arguments that pass the schema of dcs-search.
ValidSearchArgs ==
    { SearchArgs(Str(<<"x">>), Undef, Undef, me) : me \in Methods }
    \cup
    { SearchArgs(Str(<<"x">>), tm[1], tm[2], me) :
        tm \in { <<Str(<<>>), Num(1)>>, <<Str(<<"t">>), Num(100)>> },
        me \in {Undef, Str(<<"post">>)} }

\* Arguments that fail it, in one field or in several.
InvalidSearchArgs ==
    { SearchArgs(q, Undef, m, Undef) :
        q \in {Undef, Str(<<>>)}, m \in {Undef, Num(1), Num(0), Str(<<"invalid">>)} }
    \cup
    { SearchArgs(Str(<<"x">>), Undef, m, me) :
        m \in {Num(0), Num(101), NumHalf(1), NumHalf(0), NumHalf(100), Num(-1),
               Str(<<"invalid">>), Null},
        me \in {Undef, Str(<<"post">>)} }
    \cup
    { SearchArgs(Str(<<"x">>), Undef, Undef, Str(<<"put">>)),
      SearchArgs(Str(<<"x">>), Num(3), Undef, Undef),
      SearchArgs(Num(7), Undef, Undef, Undef) }

RouteArgs ==
    { Obj(<< <<"route", r>> >>) :
        r \in {Undef, Num(1), Str(<<>>), Str(<<"a">>), Str(<<"a", "/">>),
               Str(<<"/">>), Str(<<"/", "a">>)} }

NameArgs ==
    { Obj(<< <<"name", n>> >>) : n \in {Undef, Str(<<>>), Str(<<"Ada">>), Num(1)} }

UnknownTools == {"does-not-exist", "nonexistent-tool", "version", "search-docs", "get-docs"}

\* The invocations a client makes: <<tool name, arguments>>.
ToolCalls ==
    ({"dcs-search"} \X (ValidSearchArgs \cup InvalidSearchArgs))
    \cup ({"dcs-get-content"} \X RouteArgs)
    \cup ({"hello-world"} \X NameArgs)
    \cup ({"help", "dcs-api-info", "dcs-list-indexes", "dcs-list-content"} \X {NoArgs})
    \cup (UnknownTools \X {NoArgs})
    \cup {<<"search-docs", SearchArgs(Str(<<"x">>), Undef, Undef, Undef)>>,
          <<"help", Obj(<< <<"route", Str(<<"a">>)>> >>)>>}

\* An invocation ends: its record replaces last.
Finish(record) ==
    /\ last' = record
    /\ failedBefore' = (failedBefore \/ (last.kind = "tool" /\ last.result.isError))

\* The server takes a tools/call request while fewer than limit invocations
\* are suspended.  The dispatch looks the tool up, validates the arguments and
\* runs the handler up to its await; nothing of an earlier invocation is read.
Invoke(name, args, limit) ==
    /\ phase = "serving"
    /\ Len(pending) < limit
    /\ IF ~IsRegistered(name)
       THEN /\ Finish(Completed("tool", name, args, NoArgs,
                                [path |-> <<>>, options |-> NoOptions], <<>>,
                                NoResponse, NoOutcome,
                                ToolError(ToolNotFound(name))))
            /\ UNCHANGED pending
       ELSE IF SchemaIssues(name, args) # <<>>
       THEN /\ Finish(Completed("tool", name, args, NoArgs,
                                [path |-> <<>>, options |-> NoOptions], <<>>,
                                NoResponse, NoOutcome,
                                ToolError(InvalidArguments(name, SchemaIssues(name, args)))))
            /\ UNCHANGED pending
       ELSE LET data == SchemaParse(name, args)
                start == HandlerStart(name, data)
            IN  IF start.kind = "result"
                THEN /\ Finish(Completed("tool", name, args, data, start, <<>>,
                                         NoResponse, NoOutcome, Settle(start.settled)))
                     /\ UNCHANGED pending
                ELSE /\ pending' =
                           Append(pending,
                                  Suspended("tool", name, args, data, start,
                                            CallApiRequests(start.path, start.options,
                                                            apiBase)))
                     /\ UNCHANGED <<last, failedBefore>>
    /\ UNCHANGED <<env, phase, apiBase, exitCode, stderr>>

\* A tools/call request arrives.
CallTool(name, args) == Invoke(name, args, MaxInFlight)

\* A server that hands a response to the handler of the oldest invocation in
\* flight, whichever invocation the response is for.
Respond_crossed(i, response) ==
    /\ phase = "serving"
    /\ i \in 1..Len(pending)
    /\ pending[i].kind = "tool"
    /\ LET p == pending[i]
           q == pending[1]
           outcome == CallApiFinish(q.requests[1].url, response)
       IN  /\ Finish(Completed("tool", p.tool, p.args, p.data, p, p.requests,
                                response, outcome,
                                Settle(HandlerFinish(q.tool, q.data, outcome))))
           /\ pending' = Remove(pending, i)
    /\ UNCHANGED <<env, phase, apiBase, exitCode, stderr>>

\* fetch settles for the i-th suspended invocation: callApi and the handler
\* run to their end and the result is sent back.
Respond(i, response) ==
    /\ phase = "serving"
    /\ i \in 1..Len(pending)
    /\ pending[i].kind = "tool"
    /\ LET p == pending[i]
           outcome == CallApiFinish(p.requests[1].url, response)
       IN  /\ Finish(Completed("tool", p.tool, p.args, p.data, p, p.requests,
                                response, outcome,
                                Settle(HandlerFinish(p.tool, p.data, outcome))))
           /\ pending' = Remove(pending, i)
    /\ UNCHANGED <<env, phase, apiBase, exitCode, stderr>>

\* A tools/list request: the server answers with the names of the registered
\* tools, in the order of their registration.
ListTools ==
    /\ phase = "serving"
    /\ Finish(Completed("list", "", NoArgs, NoArgs,
                        [path |-> <<>>, options |-> NoOptions], <<>>,
                        NoResponse, NoOutcome,
                        [isError |-> FALSE, content |-> <<>>,
                         structuredContent |->
                             Arr([i \in 1..Len(RegisteredTools) |->
                                     Str(<<RegisteredTools[i]>>)])]))
    /\ UNCHANGED <<env, phase, apiBase, exitCode, stderr, pending>>

Init == InitWith(ServerEnvs)

Next ==
    \/ Boot
    \/ \E call \in ToolCalls : CallTool(call[1], call[2])
    \/ \E i \in 1..MaxInFlight, response \in Responses : Respond(i, response)
    \/ ListTools

Spec == Init /\ [][Next]_vars

(***************************************************************************)
(* callApi called directly, once, with any options.                        *)
(***************************************************************************)
ApiPaths == {<<"/">>, <<"/", "search">>}

ApiSearchParams ==
    {Undef} \cup
    { Obj(<< <<"q", q>>, <<"tag", tag>>, <<"maxResults", m>> >>) :
        q \in {Undef, Null, Str(<<>>), Str(<<"x">>)},
        tag \in {Undef, Str(<<>>), Str(<<"t">>)},
        m \in {Undef, Null, Num(0), Num(5)} }

ApiBodies ==
    {Undef, Num(0),
     Obj(<< <<"query", Str(<<"x">>)>>, <<"tag", Undef>>, <<"maxResults", Num(5)>> >>)}

ApiOptions ==
    [method : {Undef, Str(<<"GET">>), Str(<<"POST">>)},
     searchParams : ApiSearchParams,
     body : ApiBodies]

ApiCall(path, options) ==
    /\ phase = "serving"
    /\ pending = <<>>
    /\ last.kind = "none"
    /\ pending' = << Suspended("api", "", NoArgs, NoArgs,
                               [path |-> path, options |-> options],
                               CallApiRequests(path, options, apiBase)) >>
    /\ UNCHANGED <<env, phase, apiBase, exitCode, stderr, last, failedBefore>>

ApiRespond(response) ==
    /\ pending # <<>>
    /\ pending[1].kind = "api"
    /\ LET p == pending[1]
       IN  last' = Completed("api", p.tool, p.args, p.data, p, p.requests, response,
                             CallApiFinish(p.requests[1].url, response), NoResult)
    /\ pending' = <<>>
    /\ UNCHANGED <<env, phase, apiBase, exitCode, stderr, failedBefore>>

InitCallApi == InitWith(EnvChoices)

NextCallApi ==
    \/ Boot
    \/ \E path \in ApiPaths, options \in ApiOptions : ApiCall(path, options)
    \/ \E response \in Responses : ApiRespond(response)

SpecCallApi == InitCallApi /\ [][NextCallApi]_vars

(***************************************************************************)
(* The server started in any environment, with a few invocations.          *)
(***************************************************************************)
EnvToolCalls ==
    { <<"dcs-api-info", NoArgs>>,
      <<"dcs-search", SearchArgs(Str(<<"x">>), Undef, Undef, Undef)>>,
      <<"dcs-search", SearchArgs(Str(<<"x">>), Undef, Num(1), Str(<<"post">>))>>,
      <<"dcs-get-content", Obj(<< <<"route", Str(<<"/", "a">>)>> >>)>>,
      <<"dcs-get-content", Obj(<< <<"route", Str(<<"a">>)>> >>)>>,
      <<"help", NoArgs>>,
      <<"help", Obj(<< <<"route", Str(<<"a">>)>> >>)>>,
      <<"version", NoArgs>>,
      <<"does-not-exist", NoArgs>> }

InitEnv == InitWith(EnvChoices \cup DocsEnvs)

NextEnv ==
    \/ Boot
    \/ \E call \in EnvToolCalls : CallTool(call[1], call[2])
    \/ \E i \in 1..MaxInFlight, response \in Responses : Respond(i, response)

SpecEnv == InitEnv /\ [][NextEnv]_vars

(***************************************************************************)
(* summarizeSearchResponse applied to search responses of every shape.     *)
(***************************************************************************)
MaxResults == 7

\* Search hits in which each optional field is absent, null or set: a page
\* title that may be empty, a section title, and a score that may be an
\* integer, a fraction or not a number at all.
ResultShapes ==
    { Obj(<< <<"id", Num(1)>>, <<"pageTitle", pageTitle>>,
             <<"sectionTitle", sectionTitle>>,
             <<"sectionRoute", Str(<<"/", "r">>)>>, <<"score", score>> >>) :
        pageTitle \in {Undef, Null, Str(<<>>), Str(<<"P">>)},
        sectionTitle \in {Undef, Null, Str(<<"S">>)},
        score \in {Undef, Null, Num(2), NumHalf(1), Str(<<"high">>)} }

\* Responses with up to MaxResults hits, in every order of two hits.
ResponsesOfLength ==
    { SearchResponse(results, 7, <<"q">>, 42) :
        results \in UNION { [1..n -> {Result1, Result2}] : n \in 0..MaxResults } }

SummaryInputs ==
    ResponsesOfLength
    \cup { SearchResponse(<<shape>>, 1, <<"q">>, 3) : shape \in ResultShapes }
    \cup { SearchResponse(<<>>, 0, <<"xyz">>, 5),
           Obj(<< <<"query", Str(<<"xyz">>)>> >>),
           Obj(<< <<"results", Null>>, <<"total", Num(0)>>,
                  <<"query", Str(<<"x y">>)>>, <<"took", Num(1)>> >>) }

\* summarizeSearchResponse(data) is computed and kept as the text of last.
Summarize(data) ==
    /\ phase = "serving"
    /\ last.kind = "none"
    /\ last' = Completed("summary", "", NoArgs, data,
                         [path |-> <<>>, options |-> NoOptions], <<>>,
                         NoResponse, Return(data),
                         [isError |-> FALSE,
                          content |-> << TextBlock(Str(summarizeSearchResponse(data))) >>,
                          structuredContent |-> data])
    /\ UNCHANGED <<env, phase, apiBase, exitCode, stderr, pending, failedBefore>>

InitSummary == InitWith({[DCS_BASE_URL |-> Undef, DOCUSAURUS_SEARCH_BASE_URL |-> Undef,
                          PDFDANCER_DOCS_BASE_URL |-> Undef]})

NextSummary ==
    \/ Boot
    \/ \E data \in SummaryInputs : Summarize(data)

SpecSummary == InitSummary /\ [][NextSummary]_vars

(***************************************************************************)
(* Properties.                                                             *)
(***************************************************************************)
\* The invocations that have got past validation: the suspended ones and,
\* when it made a request, the last completed one.
Validated ==
    {pending[i] : i \in 1..Len(pending)} \cup
    (IF last.requests # <<>> THEN {last} ELSE {})

ErrorText(result) == result.content[1].text.s

IsErrorResult(result) ==
    /\ result.isError
    /\ Len(result.content) = 1
    /\ result.content[1].type = "text"
    /\ result.content[1].text.t = "string"

BeginsWithSlash(v) == v.t = "string" /\ Len(v.s) > 0 /\ Head(v.s) = "/"

\* C1: dcs-get-content with a route string that does not start with "/" ends
\* in an error result whose text contains 'route must start with /' and makes
\* no request; with a route that starts with "/" it makes exactly one request,
\* a GET of /content whose only query parameter is route, with the argument as
\* its value.
C1_RouteValidation ==
    /\ (last.kind = "tool" /\ last.tool = "dcs-get-content"
          /\ Get(last.args, "route").t = "string"
          /\ ~BeginsWithSlash(Get(last.args, "route")))
       => /\ IsErrorResult(last.result)
          /\ Contains(ErrorText(last.result), <<"route must start with /">>)
          /\ last.requests = <<>>
    /\ (last.kind = "tool" /\ last.tool = "dcs-get-content"
          /\ BeginsWithSlash(Get(last.args, "route")))
       => Len(last.requests) = 1
    /\ \A p \in Validated :
          (p.kind = "tool" /\ p.tool = "dcs-get-content")
          => /\ BeginsWithSlash(Get(p.args, "route"))
             /\ Len(p.requests) = 1
             /\ p.requests[1].method = <<"GET">>
             /\ p.requests[1].url.pathname = <<"/", "content">>
             /\ p.requests[1].url.searchParams
                    = << <<"route", Get(p.args, "route").s>> >>

\* A route with a "/" that is not its first character has been refused, and
\* the next invocation, with a valid route, has its request in flight.
C1_Witness ==
    /\ last.kind = "tool" /\ last.tool = "dcs-get-content"
    /\ Get(last.args, "route") = Str(<<"a", "/">>)
    /\ last.result.isError
    /\ last.requests = <<>>
    /\ Len(pending) = 1
    /\ pending[1].tool = "dcs-get-content"
    /\ Get(pending[1].args, "route") = Str(<<"/", "a">>)

InRange(m) == m.t = "number" /\ ~m.half /\ m.n >= 1 /\ m.n <= 100

OtherSearchArgsValid(args) ==
    /\ Get(args, "query").t = "string" /\ Get(args, "query").s # <<>>
    /\ Get(args, "tag").t \in {"undefined", "string"}
    /\ \/ Get(args, "method").t = "undefined"
       \/ Get(args, "method") = Str(<<"get">>)
       \/ Get(args, "method") = Str(<<"post">>)

\* The request carries maxResults as the number n: as the query parameter of
\* a GET, or as the member of the JSON body of a POST.
ForwardsMaxResults(request, n) ==
    \/ /\ request.method = <<"GET">>
       /\ \E i \in 1..Len(request.url.searchParams) :
             request.url.searchParams[i] = <<"maxResults", <<ToString(n)>> >>
       /\ Cardinality({i \in 1..Len(request.url.searchParams) :
                          request.url.searchParams[i][1] = "maxResults"}) = 1
    \/ /\ request.method = <<"POST">>
       /\ request.body.t = "string"
       /\ \/ Contains(request.body.s, <<"\"", "maxResults", "\"", ":", ToString(n), "}">>)
          \/ Contains(request.body.s, <<"\"", "maxResults", "\"", ":", ToString(n), ",">>)

\* C2: dcs-search given a maxResults that is not an integer in 1..100 ends in
\* an error result naming maxResults and makes no request; given an integer in
\* 1..100 (the other arguments being valid) it passes validation and its one
\* request carries the same number.
C2_MaxResultsRange ==
    /\ (last.kind = "tool" /\ last.tool = "dcs-search"
          /\ Get(last.args, "maxResults").t # "undefined"
          /\ ~InRange(Get(last.args, "maxResults")))
       => /\ IsErrorResult(last.result)
          /\ Contains(ErrorText(last.result), <<"maxResults">>)
          /\ last.requests = <<>>
    /\ (last.kind = "tool" /\ last.tool = "dcs-search"
          /\ InRange(Get(last.args, "maxResults"))
          /\ OtherSearchArgsValid(last.args))
       => Len(last.requests) = 1
    /\ \A p \in Validated :
          (p.kind = "tool" /\ p.tool = "dcs-search"
             /\ Get(p.args, "maxResults").t # "undefined")
          => /\ InRange(Get(p.args, "maxResults"))
             /\ Len(p.requests) = 1
             /\ ForwardsMaxResults(p.requests[1], Get(p.args, "maxResults").n)

\* A search with maxResults 100, the cap itself, has been answered, after an
\* earlier invocation was refused.
C2_Witness ==
    /\ last.kind = "tool" /\ last.tool = "dcs-search"
    /\ Get(last.args, "maxResults") = Num(100)
    /\ Len(last.requests) = 1
    /\ ~last.result.isError
    /\ failedBefore

Kept(value) ==
    ~(value.t \in {"undefined", "null"}) /\ ~(value.t = "string" /\ value.s = <<>>)

StringForm(value) ==
    IF value.t = "string" THEN value.s ELSE <<ToString(value.n)>>

\* C3: the query of the URL callApi requests has a key exactly when the value
\* given for it in searchParams is not undefined, null or the empty string,
\* then once and with the value's string form (0 is kept); the URL's text has
\* key=value for it; without searchParams the URL has no query.
C3_SparseQuery ==
    last.kind = "api" =>
        LET params == last.requests[1].url.searchParams
            given == last.options.searchParams
            text == UrlToString(last.requests[1].url)
        IN  IF given.t = "undefined" THEN params = <<>>
            ELSE /\ \A i \in 1..Len(given.fields) :
                       LET key == given.fields[i][1]
                           value == given.fields[i][2]
                           at == {j \in 1..Len(params) : params[j][1] = key}
                       IN  IF Kept(value)
                           THEN /\ Cardinality(at) = 1
                                /\ \A j \in at : params[j][2] = StringForm(value)
                                /\ Contains(text, <<key, "=">> \o StringForm(value))
                           ELSE /\ at = {}
                                /\ ~Contains(text, <<key, "=">>)
                 /\ \A j \in 1..Len(params) :
                       \E i \in 1..Len(given.fields) : given.fields[i][1] = params[j][1]

\* callApi was given {q: "x", tag: undefined, maxResults: null} and the URL it
\* requested ends in ?q=x.
C3_Witness ==
    /\ last.kind = "api"
    /\ last.options.searchParams
           = Obj(<< <<"q", Str(<<"x">>)>>, <<"tag", Undef>>, <<"maxResults", Null>> >>)
    /\ UrlToString(last.requests[1].url)
           = apiBase.origin \o last.path \o <<"?", "q", "=", "x">>

\* The request has the header name: value.
HasHeader(request, name, value) ==
    \E i \in 1..Len(request.headers) : request.headers[i] = <<name, value>>

\* C4: the request callApi makes carries a body and the header
\* Content-Type: application/json exactly when a body was given and the
\* method is POST; a GET call given a body sends neither.
C4_BodyOnlyOnPost ==
    last.kind = "api" =>
        LET request == last.requests[1]
            honoured == /\ Truthy(last.options.body)
                        /\ last.options.method = Str(<<"POST">>)
        IN  /\ (request.body.t # "undefined") <=> honoured
            /\ HasHeader(request, "Content-Type", <<"application/json">>) <=> honoured

\* What the code does: the body goes with a POST only, and the header goes
\* with every call that was given a body, whatever its method.
C4_HeaderFollowsBody ==
    last.kind = "api" =>
        LET request == last.requests[1]
        IN  /\ (request.body.t # "undefined")
                <=> (Truthy(last.options.body) /\ last.options.method = Str(<<"POST">>))
            /\ HasHeader(request, "Content-Type", <<"application/json">>)
                <=> Truthy(last.options.body)

\* A GET call given a body has sent the header and no body.
C4_GetWithBody ==
    /\ last.kind = "api"
    /\ last.options.method = Str(<<"GET">>)
    /\ Truthy(last.options.body)
    /\ last.requests[1].body = Undef
    /\ HasHeader(last.requests[1], "Content-Type", <<"application/json">>)

\* The response is an HTTP response with a status outside 200..299.
NotOkStatus(response) ==
    ~response.failed /\ (response.status < 200 \/ response.status > 299)

\* C5: for a response with a non-success status callApi throws, returning no
\* value, and the message of the error contains the requested URL, the status
\* code, and the body text, or the reason phrase when the body is empty.
C5_StatusError ==
    (last.kind = "api" /\ NotOkStatus(last.response)) =>
        /\ last.outcome.kind = "throw"
        /\ last.outcome.value = Undef
        /\ Contains(last.outcome.message, UrlToString(last.requests[1].url))
        /\ Contains(last.outcome.message, <<ToString(last.response.status)>>)
        /\ IF last.response.text # <<>>
           THEN Contains(last.outcome.message, last.response.text)
           ELSE /\ last.response.statusText # <<>>
                /\ Contains(last.outcome.message, last.response.statusText)

\* A 500 with the body "boom" answered a request with a query, and the error
\* thrown reads: Request to <url> failed with status 500: boom.
C5_Witness ==
    /\ last.kind = "api"
    /\ last.response.status = 500
    /\ last.response.text = <<"boom">>
    /\ last.requests[1].url.searchParams # <<>>
    /\ last.outcome.kind = "throw"
    /\ last.outcome.message
           = <<"Request to ">> \o UrlToString(last.requests[1].url)
                 \o <<" failed with status ", "500", ": ", "boom">>

\* The response is an HTTP response with a status in 200..299.
OkStatus(response) ==
    ~response.failed /\ response.status >= 200 /\ response.status <= 299

\* C6: for a response with a success status callApi returns undefined when
\* the body text is empty; returns the JSON value the text denotes when it is
\* JSON; and otherwise throws an error whose message contains the requested
\* URL and the diagnostic of the parser.
C6_DecodeBody ==
    (last.kind = "api" /\ OkStatus(last.response)) =>
        LET text == last.response.text
            denoted == {doc \in JsonDocs : Stringify(doc, FALSE, 0) = text}
        IN  IF text = <<>> THEN last.outcome = Return(Undef)
            ELSE IF denoted # {}
            THEN /\ last.outcome.kind = "return"
                 /\ last.outcome.value \in denoted
            ELSE /\ last.outcome.kind = "throw"
                 /\ last.outcome.value = Undef
                 /\ Contains(last.outcome.message, UrlToString(last.requests[1].url))
                 /\ Contains(last.outcome.message, <<"Unexpected token">>)

\* A 200 with an empty body was answered with undefined.
C6_Witness ==
    /\ last.kind = "api"
    /\ last.response.status = 200
    /\ last.response.text = <<>>
    /\ last.outcome.kind = "return"
    /\ last.outcome.value = Undef

\* A 200 whose body is not JSON was answered with the parse error.
C6_WitnessParseError ==
    /\ last.kind = "api"
    /\ last.response.status = 200
    /\ last.response.text = <<"boom">>
    /\ last.outcome.kind = "throw"

\* callApi ended in an error for the response.
Failure(response) ==
    \/ response.failed
    \/ NotOkStatus(response)
    \/ /\ response.text # <<>>
       /\ \A doc \in JsonDocs : Stringify(doc, FALSE, 0) # response.text

\* C7: a callApi invocation hands exactly one request to fetch, whatever the
\* response: once it has ended, in a value or in an error, it has made one
\* request and none is in flight; a network failure, a non-success status and
\* a body that does not parse each end it in an error at once.
C7_OneRequest ==
    /\ \A i \in 1..Len(pending) :
          pending[i].kind = "api" => Len(pending[i].requests) = 1
    /\ last.kind = "api" =>
          /\ Len(last.requests) = 1
          /\ pending = <<>>
          /\ last.outcome.kind \in {"return", "throw"}
          /\ Failure(last.response) <=> last.outcome.kind = "throw"

\* fetch rejected, and callApi threw after its one request.
C7_Witness ==
    /\ last.kind = "api"
    /\ last.response.failed
    /\ last.outcome.kind = "throw"
    /\ Len(last.requests) = 1
    /\ pending = <<>>

\* The names main() registers.
Registered(tool) ==
    tool \in {"hello-world", "help", "dcs-api-info", "dcs-search",
              "dcs-list-indexes", "dcs-list-content", "dcs-get-content"}

\* The arguments satisfy the input schema of the tool.
ValidCall(tool, args) ==
    CASE tool = "hello-world" -> Get(args, "name").t \in {"undefined", "string"}
      [] tool = "dcs-search" ->
            /\ OtherSearchArgsValid(args)
            /\ Get(args, "maxResults").t = "undefined" \/ InRange(Get(args, "maxResults"))
      [] tool = "dcs-get-content" -> BeginsWithSlash(Get(args, "route"))
      [] OTHER -> TRUE

\* A response the handler of the tool can format: a success status with a
\* JSON body, which search and get-content read a property of.
Usable(tool, response) ==
    /\ ~Failure(response)
    /\ tool \in {"dcs-search", "dcs-get-content"}
          => response.text # <<>> /\ response.text # <<"null">>

\* C8: an invocation that fails (an unknown tool, arguments the schema
\* refuses, a network failure, a non-success status, a body that does not
\* parse) ends in an error result and the process goes on serving: no
\* invocation ends with the process exited, and a valid invocation whose
\* request, if it makes one, is answered with a usable response ends in a
\* result that is not an error, whatever failed before it.
C8_ErrorsContained ==
    /\ (last.kind = "tool" \/ pending # <<>>) => (phase = "serving" /\ exitCode = -1)
    /\ last.kind = "tool" =>
          /\ Len(last.requests) <= 1
          /\ ~Registered(last.tool) => IsErrorResult(last.result)
          /\ (Registered(last.tool) /\ ~ValidCall(last.tool, last.args))
                => (IsErrorResult(last.result) /\ last.requests = <<>>)
          /\ (Len(last.requests) = 1 /\ Failure(last.response))
                => IsErrorResult(last.result)
          /\ ( /\ Registered(last.tool)
               /\ ValidCall(last.tool, last.args)
               /\ last.requests # <<>> => Usable(last.tool, last.response) )
                => (~last.result.isError /\ last.result.content # <<>>)

\* After a failed invocation, a search was answered with a 500 and ended in
\* an error result, and the server is serving.
C8_Witness ==
    /\ failedBefore
    /\ last.kind = "tool" /\ last.tool = "dcs-search"
    /\ last.response.status = 500
    /\ last.result.isError
    /\ phase = "serving"

\* After failed invocations, a valid search was answered normally.
C8_WitnessRecovered ==
    /\ failedBefore
    /\ last.kind = "tool" /\ last.tool = "dcs-search"
    /\ last.response.status = 200
    /\ ~last.result.isError
    /\ last.result.structuredContent = SearchResponse(<<Result1, Result2>>, 2, <<"x">>, 42)

\* C9: a call of a name that is not registered ends in an error result whose
\* one content block is text containing the name and "not found"; no handler
\* has run for it and no request was made.
C9_UnknownTool ==
    (last.kind = "tool" /\ ~Registered(last.tool)) =>
        /\ IsErrorResult(last.result)
        /\ Contains(ErrorText(last.result), <<last.tool>>)
        /\ Contains(ErrorText(last.result), <<" not found">>)
        /\ last.requests = <<>>
        /\ last.path = <<>>
        /\ last.outcome = NoOutcome
        /\ last.result.structuredContent = Undef
        /\ \A i \in 1..Len(pending) : Registered(pending[i].tool)

\* The call of "does-not-exist" has been answered.
C9_Witness ==
    /\ last.kind = "tool" /\ last.tool = "does-not-exist"
    /\ last.result.isError
    /\ last.requests = <<>>

\* The invocation was refused before its handler ran: an error result, and
\* no callApi call, request or response.
Refused(record) ==
    /\ IsErrorResult(record.result)
    /\ record.requests = <<>>
    /\ record.path = <<>>
    /\ record.outcome = NoOutcome
    /\ record.response = NoResponse

\* C10: dcs-search without a query is refused with a text containing "query"
\* and "Required"; with an empty query it is refused with a text naming
\* query; with a maxResults that is not a number it is refused with a text
\* containing "maxResults" and "number".  A refused invocation runs no handler
\* and makes no request: every search that made one had a non-empty query and
\* a maxResults that was absent or a number.
C10_SearchValidation ==
    /\ (last.kind = "tool" /\ last.tool = "dcs-search") =>
          /\ Get(last.args, "query").t = "undefined"
                => /\ Refused(last)
                   /\ Contains(ErrorText(last.result), <<"query">>)
                   /\ Contains(ErrorText(last.result), <<"Required">>)
          /\ Get(last.args, "query") = Str(<<>>)
                => /\ Refused(last)
                   /\ Contains(ErrorText(last.result), <<"query">>)
          /\ ~(Get(last.args, "maxResults").t \in {"undefined", "number"})
                => /\ Refused(last)
                   /\ Contains(ErrorText(last.result), <<"maxResults">>)
                   /\ Contains(ErrorText(last.result), <<"number">>)
    /\ \A p \in Validated :
          (p.kind = "tool" /\ p.tool = "dcs-search")
          => /\ Get(p.args, "query").t = "string"
             /\ Get(p.args, "query").s # <<>>
             /\ Get(p.args, "maxResults").t \in {"undefined", "number"}

\* A search without a query and with the maxResults "invalid" has been
\* refused, both fields named in the text.
C10_Witness ==
    /\ last.kind = "tool" /\ last.tool = "dcs-search"
    /\ Get(last.args, "query") = Undef
    /\ Get(last.args, "maxResults") = Str(<<"invalid">>)
    /\ last.result.isError
    /\ Contains(ErrorText(last.result), <<"Required">>)
    /\ Contains(ErrorText(last.result), <<"Expected ", "number">>)
    /\ last.requests = <<>>

\* A search with the empty query has been refused.
C10_WitnessEmptyQuery ==
    /\ last.kind = "tool" /\ last.tool = "dcs-search"
    /\ Get(last.args, "query") = Str(<<>>)
    /\ last.result.isError
    /\ Contains(ErrorText(last.result), <<"query is required">>)
    /\ last.requests = <<>>

\* The query a GET search carries for the arguments: q, then tag and
\* maxResults when they were given and are not empty.
SearchQuery(args) ==
    << <<"q", Get(args, "query").s>> >>
    \o ( IF Kept(Get(args, "tag"))
         THEN << <<"tag", Get(args, "tag").s>> >> ELSE <<>> )
    \o ( IF Kept(Get(args, "maxResults"))
         THEN << <<"maxResults", <<ToString(Get(args, "maxResults").n)>> >> >>
         ELSE <<>> )

\* The JSON text of {query, tag, maxResults} for the arguments.
SearchBody(args) ==
    Stringify(Obj(<< <<"query", Get(args, "query")>>,
                     <<"tag", Get(args, "tag")>>,
                     <<"maxResults", Get(args, "maxResults")>> >>), FALSE, 0)

\* C11: a dcs-search that passed validation makes exactly one request, to
\* /search: with the method argument post it is a POST whose body is the JSON
\* of {query, tag, maxResults} and whose URL has no query; with method get or
\* no method it is a GET without a body whose query carries the same fields
\* as q, tag and maxResults.
C11_SearchDispatch ==
    \A p \in Validated :
        (p.kind = "tool" /\ p.tool = "dcs-search") =>
            /\ Len(p.requests) = 1
            /\ p.requests[1].url.pathname = <<"/", "search">>
            /\ IF Get(p.args, "method") = Str(<<"post">>)
               THEN /\ p.requests[1].method = <<"POST">>
                    /\ p.requests[1].url.searchParams = <<>>
                    /\ p.requests[1].body = Str(SearchBody(p.args))
               ELSE /\ p.requests[1].method = <<"GET">>
                    /\ p.requests[1].body = Undef
                    /\ p.requests[1].url.searchParams = SearchQuery(p.args)

\* A search with method post, tag "t" and maxResults 100 went out as a POST
\* with the three fields in its body and was answered, and a search without a
\* method is in flight as a GET of /search?q=x.
C11_Witness ==
    /\ last.kind = "tool" /\ last.tool = "dcs-search"
    /\ Get(last.args, "method") = Str(<<"post">>)
    /\ Get(last.args, "tag") = Str(<<"t">>)
    /\ last.requests[1].method = <<"POST">>
    /\ last.requests[1].body = Str(SearchBody(last.args))
    /\ Contains(last.requests[1].body.s, <<"tag">>)
    /\ Len(pending) = 1
    /\ pending[1].tool = "dcs-search"
    /\ Get(pending[1].args, "method") = Undef
    /\ pending[1].requests[1].method = <<"GET">>
    /\ pending[1].requests[1].url.searchParams = << <<"q", <<"x">> >> >>

\* The requests handed to fetch so far that the state records: those in
\* flight and those of the last completed invocation.
Requests ==
    {pending[i].requests[j] : i \in 1..Len(pending), j \in 1..1}
    \cup {last.requests[j] : j \in 1..Len(last.requests)}

\* The origin of an absolute URL given as text: its scheme and its host.
OriginOf(raw) == <<raw[1], raw[2]>>

\* C12: every request of a server started with PDFDANCER_DOCS_BASE_URL set
\* to U goes to the origin of U, and every request of a server started with
\* no base URL variable set goes to the built-in default endpoint.
C12_DocsBaseUrl ==
    /\ env.PDFDANCER_DOCS_BASE_URL.t = "string"
          => \A r \in Requests :
                r.url.origin = OriginOf(env.PDFDANCER_DOCS_BASE_URL.s)
    /\ ( /\ env.PDFDANCER_DOCS_BASE_URL = Undef
         /\ env.DCS_BASE_URL = Undef
         /\ env.DOCUSAURUS_SEARCH_BASE_URL = Undef )
          => \A r \in Requests :
                r.url.origin = <<"https://",
                                 "docusaurus-cloudflare-search.michael-lahr-0b0.workers.dev">>

\* What the code does: PDFDANCER_DOCS_BASE_URL is not read; the base is
\* DCS_BASE_URL, else DOCUSAURUS_SEARCH_BASE_URL, else the default.
C12_VariablesRead ==
    \A r \in Requests :
        r.url.origin =
            IF env.DCS_BASE_URL # Undef THEN OriginOf(env.DCS_BASE_URL.s)
            ELSE IF env.DOCUSAURUS_SEARCH_BASE_URL # Undef
            THEN OriginOf(env.DOCUSAURUS_SEARCH_BASE_URL.s)
            ELSE <<"https://",
                   "docusaurus-cloudflare-search.michael-lahr-0b0.workers.dev">>

\* Started with only PDFDANCER_DOCS_BASE_URL set, the server has a request in
\* flight to the default endpoint.
C12_RequestToDefault ==
    /\ env.PDFDANCER_DOCS_BASE_URL = Str(<<"https://", "your-docs-endpoint.com">>)
    /\ env.DCS_BASE_URL = Undef
    /\ Len(pending) = 1
    /\ pending[1].requests[1].url.origin
           = <<"https://", "docusaurus-cloudflare-search.michael-lahr-0b0.workers.dev">>

\* The value the base URL is resolved from: the first of DCS_BASE_URL and
\* DOCUSAURUS_SEARCH_BASE_URL that is set, else the default.
ResolvedValue ==
    IF env.DCS_BASE_URL # Undef THEN env.DCS_BASE_URL.s
    ELSE IF env.DOCUSAURUS_SEARCH_BASE_URL # Undef THEN env.DOCUSAURUS_SEARCH_BASE_URL.s
    ELSE <<"https://", "docusaurus-cloudflare-search.michael-lahr-0b0.workers.dev", "/">>

\* The value is an absolute URL: a scheme, then a host.
WellFormed(raw) == Len(raw) >= 2 /\ raw[1] \in {"http://", "https://"}

\* C13: a process whose resolved base URL value is not a well-formed absolute
\* URL has, once loaded, exited with status 1 and printed a diagnostic that
\* quotes the value and names DCS_BASE_URL and DOCUSAURUS_SEARCH_BASE_URL; it
\* has served no invocation and made no request.  A process exits this way
\* for no other value.
C13_InvalidBaseUrlFatal ==
    /\ (phase # "boot" /\ ~WellFormed(ResolvedValue)) =>
          /\ phase = "exited"
          /\ exitCode = 1
          /\ Contains(stderr, <<"Invalid Docusaurus search base URL \"">>
                                  \o ResolvedValue \o <<"\". Set ">>)
          /\ Contains(stderr, <<"DCS_BASE_URL">>)
          /\ Contains(stderr, <<"DOCUSAURUS_SEARCH_BASE_URL">>)
          /\ last = NoLast
          /\ pending = <<>>
          /\ Requests = {}
    /\ (phase = "exited" \/ exitCode # -1 \/ stderr # <<>>)
          => (phase = "exited" /\ ~WellFormed(ResolvedValue))
    /\ (phase = "boot") => (last = NoLast /\ pending = <<>>)

\* Started with DCS_BASE_URL set to "not a url", the process has exited with
\* status 1 and the diagnostic quoting it.
C13_Witness ==
    /\ env.DCS_BASE_URL = Str(<<"not a url">>)
    /\ phase = "exited"
    /\ exitCode = 1
    /\ Contains(stderr, <<"not a url">>)
    /\ last = NoLast

\* Every request the state records is for the base URL joined with the path
\* of its callApi call: the origin of the base and, the path being absolute,
\* the path itself; and the base is the one resolved from the environment.
RequestsOnBase ==
    /\ \A p \in Validated :
          \A j \in 1..Len(p.requests) :
              /\ p.requests[j].url.origin = apiBase.origin
              /\ p.requests[j].url.pathname = p.path
    /\ \A r \in Requests : r.url.origin = OriginOf(ResolvedValue)
    /\ phase = "serving" => apiBase.origin = OriginOf(ResolvedValue)

\* C14: the base URL is set once, at startup, and no later step changes it;
\* in every state every request is for that base joined with the path of its
\* call, so all requests of a process have the origin of the base, whatever
\* invocations were made.
C14_FixedBase ==
    /\ []RequestsOnBase
    /\ [][phase # "boot" => apiBase' = apiBase]_vars

\* With DOCUSAURUS_SEARCH_BASE_URL set to https://docs.example/api/, a
\* get-content was answered and a search is in flight, both sent to
\* https://docs.example.
C14_Witness ==
    /\ env.DCS_BASE_URL = Undef
    /\ env.DOCUSAURUS_SEARCH_BASE_URL = Str(<<"https://", "docs.example", "/", "api", "/">>)
    /\ last.kind = "tool" /\ last.tool = "dcs-get-content"
    /\ Len(last.requests) = 1
    /\ last.requests[1].url.origin = <<"https://", "docs.example">>
    /\ Len(pending) = 1
    /\ pending[1].tool = "dcs-search"
    /\ pending[1].requests[1].url.origin = <<"https://", "docs.example">>
    /\ pending[1].requests[1].url.pathname = <<"/", "search">>

\* The names a tools/list answer carries.
Listed(result) ==
    {result.structuredContent.items[i].s[1] :
        i \in 1..Len(result.structuredContent.items)}

\* C15: the answer to tools/list names exactly the four tools help, version,
\* search-docs and get-docs, each once.
C15_FourTools ==
    last.kind = "list" =>
        /\ Len(last.result.structuredContent.items) = 4
        /\ Listed(last.result) = {"help", "version", "search-docs", "get-docs"}

\* What the code does: the answer names the seven tools main() registers,
\* each once.
C15_SevenTools ==
    last.kind = "list" =>
        /\ Len(last.result.structuredContent.items) = 7
        /\ Cardinality(Listed(last.result)) = 7
        /\ Listed(last.result)
              = {"hello-world", "help", "dcs-api-info", "dcs-search",
                 "dcs-list-indexes", "dcs-list-content", "dcs-get-content"}

\* A tools/list was answered with seven names, version not among them.
C15_ListedSeven ==
    /\ last.kind = "list"
    /\ Len(last.result.structuredContent.items) = 7
    /\ ~("version" \in Listed(last.result))
    /\ "dcs-search" \in Listed(last.result)

\* C16: a call of version without arguments ends in a result that is not an
\* error, whose first content block is text containing
\* "pdfdancer-mcp version:" and whose structured content has a version
\* property; it makes no request.
C16_VersionTool ==
    (last.kind = "tool" /\ last.tool = "version") =>
        /\ ~last.result.isError
        /\ Len(last.result.content) >= 1
        /\ last.result.content[1].type = "text"
        /\ Contains(last.result.content[1].text.s, <<"pdfdancer-mcp version:">>)
        /\ Get(last.result.structuredContent, "version") # Undef
        /\ last.requests = <<>>

\* A call of version was answered with the error that the tool is not found.
C16_VersionNotFound ==
    /\ last.kind = "tool" /\ last.tool = "version"
    /\ last.args = NoArgs
    /\ last.result.isError
    /\ Contains(ErrorText(last.result), <<"version", " not found">>)
    /\ last.requests = <<>>

\* The answer to help: a function of nothing, the same in every state.
HelpAnswer ==
    [isError |-> FALSE,
     content |-> << [type |-> "text", text |-> Str(renderHelpDocument(helpDocument))] >>,
     structuredContent |-> helpDocumentValue]

\* The invocation is one of help or of version.
Static(record) == record.kind = "tool" /\ record.tool \in {"help", "version"}

\* C17: in every state, whatever was invoked before and whatever is in
\* flight, an answer to help is the one fixed answer, and so is an answer to
\* version (in this revision the fixed answer that the tool is not found);
\* neither makes a request, and an answer to one of them right after an
\* answer to the same one is equal to it.
C17_StaticToolsIdempotent ==
    /\ [] /\ (last.kind = "tool" /\ last.tool = "help")
               => (last.result = HelpAnswer /\ last.requests = <<>>)
          /\ (last.kind = "tool" /\ last.tool = "version")
               => /\ last.result.isError
                  /\ ErrorText(last.result)
                         = <<"MCP error -32602: ", "Tool ", "version", " not found">>
                  /\ last.requests = <<>>
    /\ [][(Static(last) /\ Static(last') /\ last'.tool = last.tool)
             => last'.result = last.result]_vars

\* help was answered after an invocation that failed, while a request of
\* another invocation is in flight.
C17_Witness ==
    /\ last.kind = "tool" /\ last.tool = "help"
    /\ last.result.content[1].text = Str(renderHelpDocument(helpDocument))
    /\ failedBefore
    /\ Len(pending) = 1

\* The text of the summary kept in last, and the hits of its response.
SummaryText == last.result.content[1].text.s

Hits ==
    IF Get(last.data, "results").t = "array" THEN Get(last.data, "results").items
    ELSE <<>>

\* C18: for a response whose results are empty (or missing) the summary is
\* exactly: No matches for "<query>". with the query of the response.
C18_NoMatches ==
    (last.kind = "summary" /\ Hits = <<>>) =>
        SummaryText = <<"No matches for \"">> \o Get(last.data, "query").s \o <<"\".">>

\* The response {results: [], total: 0, query: "xyz", took: 5} was summarized
\* as: No matches for "xyz".
C18_Witness ==
    /\ last.kind = "summary"
    /\ last.data = SearchResponse(<<>>, 0, <<"xyz">>, 5)
    /\ SummaryText = <<"No matches for \"", "xyz", "\".">>

\* The lines of a text: its runs of atoms between line feeds.
RECURSIVE Lines(_)
Lines(text) ==
    IF \E i \in 1..Len(text) : text[i] = "\n"
    THEN LET cut == CHOOSE i \in 1..Len(text) :
                        text[i] = "\n" /\ \A j \in 1..(i - 1) : text[j] # "\n"
         IN  <<SubSeq(text, 1, cut - 1)>> \o Lines(SubSeq(text, cut + 1, Len(text)))
    ELSE <<text>>

\* The smaller of n and 5.
Shown(n) == IF n < 5 THEN n ELSE 5

\* C19: for a response with n > 0 results the summary has 1 + min(n, 5)
\* lines: the first is <total> result(s) for "<query>" (showing <k>, <took>ms).
\* with k = min(n, 5), and line 1 + i, for i in 1..k, is numbered i and is
\* the line of the i-th result of the response.
C19_SummaryLines ==
    (last.kind = "summary" /\ Hits # <<>>) =>
        LET lines == Lines(SummaryText)
            k == Shown(Len(Hits))
        IN  /\ Len(lines) = 1 + k
            /\ lines[1] = <<ToString(Get(last.data, "total").n), " result(s) for \"">>
                             \o Get(last.data, "query").s
                             \o <<"\" (showing ", ToString(k), ", ",
                                   ToString(Get(last.data, "took").n), "ms).">>
            /\ \A i \in 1..k :
                  /\ SubSeq(lines[1 + i], 1, 2) = <<ToString(i), ".">>
                  /\ Contains(lines[1 + i],
                              <<"->", " ">> \o Get(Hits[i], "sectionRoute").s)

\* A response with 7 results and took 42 was summarized with the first line
\* 7 result(s) for "q" (showing 5, 42ms). and five ranked lines, the hits
\* being in an order in which the two kinds alternate.
C19_Witness ==
    /\ last.kind = "summary"
    /\ Hits = <<Result2, Result1, Result2, Result1, Result2, Result1, Result1>>
    /\ Len(Lines(SummaryText)) = 6
    /\ Lines(SummaryText)[1]
           = <<"7", " result(s) for \"", "q", "\" (showing ", "5", ", ", "42", "ms).">>

\* A field of a hit is available when it is neither absent nor null.
Available(v) == ~(v.t \in {"undefined", "null"})

\* The display title of a hit: the first available of its page title, its
\* section title and its route.
DisplayTitle(hit) ==
    IF Available(Get(hit, "pageTitle")) THEN Get(hit, "pageTitle").s
    ELSE IF Available(Get(hit, "sectionTitle")) THEN Get(hit, "sectionTitle").s
    ELSE Get(hit, "sectionRoute").s

\* A number to three decimal places.
Decimals3(v) == <<ToString(v.n), IF v.half THEN ".500" ELSE ".000">>

\* C20: the ranked line of the i-th hit is its number, its display title
\* (the first available of pageTitle, sectionTitle, sectionRoute), the arrow
\* and its route, followed by score=<score to three decimals> exactly when
\* its score is a number; the line does not end in white space.
C20_RankedLine ==
    (last.kind = "summary" /\ Hits # <<>>) =>
        LET lines == Lines(SummaryText)
        IN  \A i \in 1..Shown(Len(Hits)) :
                LET hit == Hits[i]
                    line == lines[1 + i]
                IN  /\ line = <<ToString(i), ".", " ">> \o DisplayTitle(hit)
                                 \o <<" ", "->", " ">> \o Get(hit, "sectionRoute").s
                                 \o ( IF Get(hit, "score").t = "number"
                                      THEN <<" ", "score=">> \o Decimals3(Get(hit, "score"))
                                      ELSE <<>> )
                    /\ Contains(line, <<"score=">>) <=> Get(hit, "score").t = "number"
                    /\ ~(line[Len(line)] \in {" ", "\n", "\t"})

\* A hit with a null page title, the section title "S" and a score that is
\* not a number was summarized as: 1. S -> /r
C20_Witness ==
    /\ last.kind = "summary"
    /\ Len(Hits) = 1
    /\ Get(Hits[1], "pageTitle") = Null
    /\ Get(Hits[1], "sectionTitle") = Str(<<"S">>)
    /\ Get(Hits[1], "score") = Str(<<"high">>)
    /\ Lines(SummaryText)[2] = <<"1", ".", " ", "S", " ", "->", " ", "/", "r">>

\* A hit with an empty page title and the score 1.5 was summarized with the
\* empty title and score=1.500.
C20_WitnessEmptyTitle ==
    /\ last.kind = "summary"
    /\ Len(Hits) = 1
    /\ Get(Hits[1], "pageTitle") = Str(<<>>)
    /\ Get(Hits[1], "sectionTitle") = Str(<<"S">>)
    /\ Lines(SummaryText)[2]
           = <<"1", ".", " ", " ", "->", " ", "/", "r", " ", "score=", "1", ".500">>

\* The JSON document a body text denotes.
Denoted(text) == CHOOSE doc \in JsonDocs : Stringify(doc, FALSE, 0) = text

\* The invocation of the tool kept in last has ended with a result that is
\* not an error, after a response of the service.
Succeeded(tool) ==
    /\ last.kind = "tool"
    /\ last.tool = tool
    /\ last.response # NoResponse
    /\ ~last.result.isError

\* C21: a successful search returns exactly one text block, which is the
\* summary of the response, a blank line and the JSON block titled Raw search
\* response of the response; its structured content is the response of the
\* service unchanged, so its query member is the query the service echoed.
C21_SearchResult ==
    Succeeded("dcs-search") =>
        LET doc == Denoted(last.response.text)
        IN  /\ Len(last.result.content) = 1
            /\ last.result.content[1].type = "text"
            /\ last.result.content[1].text =
                   Str(summarizeSearchResponse(doc) \o <<"\n", "\n">>
                       \o <<"Raw search response", "\n", Fence, "json", "\n">>
                       \o Stringify(doc, TRUE, 0) \o <<"\n", Fence>>)
            /\ last.result.structuredContent = doc
            /\ Get(last.result.structuredContent, "query") = Get(doc, "query")

\* A search for x was answered with two results: the one block begins with
\* the summary line and the structured content carries the echoed query x.
C21_Witness ==
    /\ Succeeded("dcs-search")
    /\ Get(last.args, "query") = Str(<<"x">>)
    /\ Get(last.result.structuredContent, "results").t = "array"
    /\ Len(Get(last.result.structuredContent, "results").items) = 2
    /\ Get(last.result.structuredContent, "query") = Str(<<"x">>)
    /\ SubSeq(last.result.content[1].text.s, 1, 2) = <<"2", " result(s) for \"">>
    /\ Contains(last.result.content[1].text.s, <<"\n", "\n", "Raw search response">>)

\* C22: a successful content invocation returns exactly two text blocks, in
\* this order: the JSON block titled Content for <route>, with the route that
\* was asked for, of the whole response, then the content member of the
\* response alone; its structured content is the response of the service
\* unchanged.
C22_ContentResult ==
    Succeeded("dcs-get-content") =>
        LET doc == Denoted(last.response.text)
        IN  /\ Len(last.result.content) = 2
            /\ \A i \in 1..2 : last.result.content[i].type = "text"
            /\ last.result.content[1].text =
                   Str(<<"Content for ">> \o Get(last.args, "route").s
                       \o <<"\n", Fence, "json", "\n">>
                       \o Stringify(doc, TRUE, 0) \o <<"\n", Fence>>)
            /\ last.result.content[2].text = Get(doc, "content")
            /\ last.result.structuredContent = doc

\* The route /a was asked for and answered with the markdown # Title: the
\* first block is titled Content for /a and the second is # Title.
C22_Witness ==
    /\ Succeeded("dcs-get-content")
    /\ Get(last.args, "route") = Str(<<"/", "a">>)
    /\ last.result.structuredContent = ContentResponse(<<"/", "a">>, <<"# Title">>)
    /\ SubSeq(last.result.content[1].text.s, 1, 3) = <<"Content for ", "/", "a">>
    /\ last.result.content[2].text = Str(<<"# Title">>)

\* The invocation kept in last is one of a registered tool that ended with a
\* result that is not an error.
SuccessfulResult ==
    /\ last.kind = "tool"
    /\ Registered(last.tool)
    /\ ~last.result.isError

\* C23: every successful result of every registered tool has content blocks,
\* all of them of kind text, together with a structured content object.
C23_DualFormat ==
    SuccessfulResult =>
        /\ Len(last.result.content) >= 1
        /\ \A i \in 1..Len(last.result.content) : last.result.content[i].type = "text"
        /\ last.result.structuredContent.t = "object"

\* The half that holds: every successful result of every registered tool
\* has at least one content block, and all of its blocks are of kind text.
C23_TextBlocks ==
    SuccessfulResult =>
        /\ Len(last.result.content) >= 1
        /\ \A i \in 1..Len(last.result.content) : last.result.content[i].type = "text"

\* hello-world was invoked with no name and answered with its greeting as
\* one text block and with no structured content.
C23_HelloWithoutStructured ==
    /\ SuccessfulResult
    /\ last.tool = "hello-world"
    /\ Get(last.args, "name") = Undef
    /\ last.result.content[1].text.s[1] = "Hello from pdfdancer-mcp! Pass a name to personalize this message."
    /\ last.result.structuredContent = Undef

(***************************************************************************)
(* Searches for queries with characters a shell, a URL or a JSON text      *)
(* gives a meaning to, by GET and by POST.                                 *)
(***************************************************************************)
Queries ==
    { <<"a", "&", "b", "|", "c", ";", "d">>,
      <<"$", "(", "id", ")", " ", Grave, "id", Grave>>,
      <<"\"", "a", "\"", " ", "'", "b", "'">>,
      <<"a", "\\", "b", "\\">>,
      <<"+", "Java", " ", "+", "images">>,
      <<"%", "26", "=", "x", "?", "#">> }

QueryCalls ==
    { <<"dcs-search", SearchArgs(Str(q), Undef, Undef, me)>> :
        q \in Queries, me \in {Str(<<"get">>), Str(<<"post">>)} }

NextQuery ==
    \/ Boot
    \/ \E call \in QueryCalls : CallTool(call[1], call[2])
    \/ \E i \in 1..MaxInFlight, response \in Responses : Respond(i, response)

SpecQuery == Init /\ [][NextQuery]_vars

\* The runs of atoms of a text between the occurrences of the atom sep.
RECURSIVE Pieces(_, _)
Pieces(text, sep) ==
    IF \E i \in 1..Len(text) : text[i] = sep
    THEN LET cut == CHOOSE i \in 1..Len(text) :
                        text[i] = sep /\ \A j \in 1..(i - 1) : text[j] # sep
         IN  <<SubSeq(text, 1, cut - 1)>> \o Pieces(SubSeq(text, cut + 1, Len(text)), sep)
    ELSE <<text>>

\* What a server reads from one atom of a form-urlencoded text.
PercentDecode(a) ==
    CASE a = "+" -> " "
      [] a = "%26" -> "&"
      [] a = "%2B" -> "+"
      [] a = "%3D" -> "="
      [] a = "%2F" -> "/"
      [] a = "%24" -> "$"
      [] a = "%3B" -> ";"
      [] a = "%7C" -> "|"
      [] a = "%25" -> "%"
      [] a = "%28" -> "("
      [] a = "%29" -> ")"
      [] a = "%22" -> "\""
      [] a = "%27" -> "'"
      [] a = "%5C" -> "\\"
      [] a = "%60" -> Grave
      [] a = "%3F" -> "?"
      [] a = "%23" -> "#"
      [] OTHER -> a

\* The parameters a server reads from the text of a URL: what follows the
\* first question mark, up to a number sign, cut at the ampersands, each
\* piece cut at its first equals sign and decoded.
ReadParams(text) ==
    LET all == Pieces(text, "?")
        query == Pieces(IF Len(all) > 1
                        THEN SubSeq(text, Len(all[1]) + 2, Len(text)) ELSE <<>>,
                        "#")[1]
        pairs == Pieces(query, "&")
        name(pair) == [i \in 1..Len(Pieces(pair, "=")[1]) |->
                          PercentDecode(Pieces(pair, "=")[1][i])]
        value(pair) == LET from == Len(Pieces(pair, "=")[1]) + 2
                       IN  [i \in 1..(Len(pair) - from + 1) |->
                              PercentDecode(pair[from + i - 1])]
    IN  IF query = <<>> THEN <<>>
        ELSE [i \in 1..Len(pairs) |-> <<name(pairs[i]), value(pairs[i])>>]

\* What a JSON parser reads from one atom inside a string of a JSON text.
Unescape(a) ==
    CASE a = "\\\"" -> "\""
      [] a = "\\\\" -> "\\"
      [] a = "\\n" -> "\n"
      [] a = "\\t" -> "\t"
      [] OTHER -> a

\* The members a JSON parser reads from the text {"query":"<string>"}: the
\* string runs from the quotation mark after the colon to the next quotation
\* mark, and the closing brace follows it.  The empty sequence when the text
\* is not of this form.
ReadBody(text) ==
    LET lead == <<"{", "\"", "query", "\"", ":", "\"">>
        rest == SubSeq(text, Len(lead) + 1, Len(text))
        str == Pieces(rest, "\"")[1]
    IN  IF /\ Len(text) > Len(lead)
           /\ SubSeq(text, 1, Len(lead)) = lead
           /\ SubSeq(rest, Len(str) + 1, Len(rest)) = <<"\"", "}">>
        THEN << <<"query", [i \in 1..Len(str) |-> Unescape(str[i])]>> >>
        ELSE <<>>

\* The invocations whose arguments passed validation and that called the
\* service: those in flight and the one that ended last.
Searches ==
    {p \in Validated : p.kind = "tool" /\ p.tool = "dcs-search"}

\* C24: for every query, whatever characters it has, a search hands exactly
\* one request for /search to fetch; a server that decodes the URL of a GET
\* reads exactly one parameter, q, whose value is the query, and a server
\* that parses the body of a POST reads exactly one member, query, whose
\* value is the query.  Once answered, the invocation has ended with the
\* response of the service as its structured content or with a tool error.
C24_QueryRoundTrip ==
    /\ \A p \in Searches :
          /\ Len(p.requests) = 1
          /\ p.requests[1].url.pathname = <<"/", "search">>
          /\ IF Get(p.args, "method") = Str(<<"post">>)
             THEN /\ p.requests[1].method = <<"POST">>
                  /\ ReadParams(UrlToString(p.requests[1].url)) = <<>>
                  /\ p.requests[1].body.t = "string"
                  /\ ReadBody(p.requests[1].body.s) =
                        << <<"query", Get(p.args, "query").s>> >>
             ELSE /\ p.requests[1].method = <<"GET">>
                  /\ p.requests[1].body = Undef
                  /\ ReadParams(UrlToString(p.requests[1].url)) =
                        << << <<"q">>, Get(p.args, "query").s>> >>
    /\ (last.kind = "tool" /\ last.tool = "dcs-search" /\ last.response # NoResponse) =>
          \/ /\ ~last.result.isError
             /\ last.result.structuredContent = Denoted(last.response.text)
          \/ IsErrorResult(last.result)

\* The query "a" 'b', with its quotation marks, was searched for by POST and
\* the query a&b|c;d by GET at the same server; the first was answered.
C24_Witness ==
    /\ last.kind = "tool" /\ last.tool = "dcs-search"
    /\ Get(last.args, "query") = Str(<<"\"", "a", "\"", " ", "'", "b", "'">>)
    /\ Get(last.args, "method") = Str(<<"post">>)
    /\ last.requests[1].body =
          Str(<<"{", "\"", "query", "\"", ":", "\"",
                "\\\"", "a", "\\\"", " ", "'", "b", "'", "\"", "}">>)
    /\ ~last.result.isError
    /\ Len(pending) = 1
    /\ Get(pending[1].args, "query") = Str(<<"a", "&", "b", "|", "c", ";", "d">>)
    /\ Get(pending[1].args, "method") = Str(<<"get">>)
    /\ UrlToString(pending[1].requests[1].url) =
          <<"https://", "docusaurus-cloudflare-search.michael-lahr-0b0.workers.dev",
            "/", "search", "?", "q", "=", "a", "%26", "b", "%7C", "c", "%3B", "d">>

\* The tools whose handler calls the service.
NetworkTools ==
    {"dcs-api-info", "dcs-search", "dcs-list-indexes", "dcs-list-content",
     "dcs-get-content"}

\* The invocation is one of a network tool with arguments its schema accepts.
CallsService(record) ==
    /\ record.kind = "tool"
    /\ record.tool \in NetworkTools
    /\ ValidCall(record.tool, record.args)

MaxConcurrent == 2

ConcurrentCalls ==
    { <<"dcs-get-content", Obj(<< <<"route", Str(<<"/", "a">>)>> >>)>>,
      <<"dcs-get-content", Obj(<< <<"route", Str(<<"/", "b">>)>> >>)>>,
      <<"dcs-search", SearchArgs(Str(<<"x">>), Undef, Undef, Undef)>> }

NextConcurrent ==
    \/ Boot
    \/ \E call \in ConcurrentCalls : Invoke(call[1], call[2], MaxConcurrent)
    \/ \E response \in Responses : Respond(1, response)
    \/ \E i \in 2..MaxConcurrent, response \in Responses : Respond(i, response)

SpecConcurrent == Init /\ [][NextConcurrent]_vars

\* The request of the invocation is the one its own arguments ask for.
OwnRequest(p) ==
    /\ Len(p.requests) = 1
    /\ p.requests[1].url.origin = apiBase.origin
    /\ p.tool = "dcs-get-content" =>
          /\ p.requests[1].url.pathname = <<"/", "content">>
          /\ ReadParams(UrlToString(p.requests[1].url)) =
                << << <<"route">>, Get(p.args, "route").s>> >>
    /\ p.tool = "dcs-search" =>
          /\ p.requests[1].url.pathname = <<"/", "search">>
          /\ ReadParams(UrlToString(p.requests[1].url)) =
                << << <<"q">>, Get(p.args, "query").s>> >>

\* The result of an invocation with these arguments, this request and this
\* response, read off the result: a success carries the response as its
\* structured content and, for a content invocation, the route of the
\* arguments in the title of its first block; a failure carries one error
\* text, which names the URL of the request when it reports a status or a
\* body that is not JSON.
OwnResult(tool, args, request, response, result) ==
    IF result.isError
    THEN /\ IsErrorResult(result)
         /\ (NotOkStatus(response) \/ (OkStatus(response) /\ Failure(response))) =>
               Contains(ErrorText(result), UrlToString(request.url))
    ELSE /\ result.structuredContent = Denoted(response.text)
         /\ tool = "dcs-get-content" =>
               SubSeq(result.content[1].text.s, 1, 1 + Len(Get(args, "route").s))
                   = <<"Content for ">> \o Get(args, "route").s

\* C26: with several invocations in flight and the responses arriving in any
\* order, every invocation in flight holds the request its own arguments ask
\* for, and an invocation that arrives or ends leaves the others in flight as
\* they are.  A response ends exactly the invocation it is for, and the
\* result of that invocation is the one its own arguments, its own request
\* and that response give: what callApi makes of the response for the URL of
\* its own request, formatted by the handler of its own tool with its own
\* arguments.
C26_Isolation ==
    /\ [] /\ \A i \in 1..Len(pending) : OwnRequest(pending[i])
          /\ (last.kind = "tool" /\ last.response # NoResponse) =>
                 /\ OwnRequest(last)
                 /\ OwnResult(last.tool, last.args, last.requests[1], last.response,
                              last.result)
    /\ [][ /\ Len(pending') > Len(pending) =>
                 SubSeq(pending', 1, Len(pending)) = pending
           /\ Len(pending') < Len(pending) =>
                 \E i \in 1..Len(pending) :
                    /\ pending' = Remove(pending, i)
                    /\ last'.tool = pending[i].tool
                    /\ last'.args = pending[i].args
                    /\ last'.requests = pending[i].requests
                    /\ last'.outcome =
                          CallApiFinish(pending[i].requests[1].url, last'.response)
                    /\ last'.result =
                          Settle(HandlerFinish(pending[i].tool, pending[i].data,
                                               last'.outcome))
                    /\ OwnResult(pending[i].tool, pending[i].args,
                                 pending[i].requests[1], last'.response, last'.result)
         ]_vars

\* The route /b has been answered with its content while the route /a and a
\* search are both still in flight, each with its own request.
C26_Witness ==
    /\ last.kind = "tool" /\ last.tool = "dcs-get-content"
    /\ Get(last.args, "route") = Str(<<"/", "b">>)
    /\ ~last.result.isError
    /\ SubSeq(last.result.content[1].text.s, 1, 3) = <<"Content for ", "/", "b">>
    /\ Len(pending) = 2
    /\ pending[1].tool = "dcs-get-content"
    /\ Get(pending[1].args, "route") = Str(<<"/", "a">>)
    /\ pending[2].tool = "dcs-search"
    /\ pending[1].requests[1].url # pending[2].requests[1].url

\* The path and the title of each listing tool.
ListingPath(tool) ==
    CASE tool = "dcs-api-info" -> <<"/">>
      [] tool = "dcs-list-indexes" -> <<"/", "indexes">>
      [] tool = "dcs-list-content" -> <<"/", "list-content">>

ListingTitle(tool) ==
    CASE tool = "dcs-api-info" -> "API info"
      [] tool = "dcs-list-indexes" -> "Indexes"
      [] tool = "dcs-list-content" -> "Content files"

ListingTools == {"dcs-api-info", "dcs-list-indexes", "dcs-list-content"}

\* The value callApi returns for a body text of a success response:
\* undefined for the empty text, else the document it denotes.
ValueOf(text) == IF text = <<>> THEN Undef ELSE Denoted(text)

\* C27: dcs-api-info, dcs-list-indexes and dcs-list-content, which take no
\* arguments, each hand exactly one request to fetch: a GET of /, /indexes
\* and /list-content of the base, with no query parameter and no body.  A
\* successful one returns exactly one text block, the JSON block of the
\* response under the title of the tool, and the response as its structured
\* content.
C27_ListingTools ==
    /\ \A p \in Validated :
          (p.kind = "tool" /\ p.tool \in ListingTools) =>
              /\ Len(p.requests) = 1
              /\ p.requests[1].method = <<"GET">>
              /\ p.requests[1].body = Undef
              /\ p.requests[1].url.searchParams = <<>>
              /\ UrlToString(p.requests[1].url) = apiBase.origin \o ListingPath(p.tool)
    /\ \A tool \in ListingTools :
          Succeeded(tool) =>
              /\ Len(last.result.content) = 1
              /\ last.result.content[1].type = "text"
              /\ last.result.content[1].text =
                    Str(<<ListingTitle(tool), "\n", Fence, "json", "\n">>
                        \o Stringify(ValueOf(last.response.text), TRUE, 0)
                        \o <<"\n", Fence>>)
              /\ last.result.structuredContent = ValueOf(last.response.text)

\* dcs-list-indexes was invoked with no arguments and answered: its request
\* was a GET of /indexes and its block is titled Indexes.
C27_Witness ==
    /\ Succeeded("dcs-list-indexes")
    /\ last.args = NoArgs
    /\ last.requests[1].method = <<"GET">>
    /\ last.requests[1].url.pathname = <<"/", "indexes">>
    /\ last.response.text # <<>>
    /\ last.result.content[1].text.s[1] = "Indexes"
    /\ last.result.structuredContent.t = "object"

\* The text ends with the given atoms.
EndsWith(text, tail) ==
    /\ Len(text) >= Len(tail)
    /\ SubSeq(text, Len(text) - Len(tail) + 1, Len(text)) = tail

\* C28: callApi looks at the status before it looks at the body.  For a
\* response with a non-success status it never returns, neither undefined for
\* an empty body nor a value; the error it throws is the status error, which
\* begins Request to and never is the error of the parser; for an empty body
\* the error ends with the reason phrase, and for a body that is not JSON it
\* ends with the body.
C28_StatusFirst ==
    (last.kind = "api" /\ NotOkStatus(last.response)) =>
        /\ last.outcome.kind # "return"
        /\ last.outcome.kind = "throw"
        /\ Head(last.outcome.message) = "Request to "
        /\ Contains(last.outcome.message,
                    <<" failed with status ", ToString(last.response.status), ": ">>)
        /\ ~Contains(last.outcome.message, <<"Failed to parse JSON response from ">>)
        /\ last.response.text = <<>> =>
              /\ last.response.statusText # <<>>
              /\ EndsWith(last.outcome.message,
                          <<": ">> \o last.response.statusText)
        /\ last.response.text # <<>> =>
              EndsWith(last.outcome.message, <<": ">> \o last.response.text)

\* A 500 with an empty body was answered with the error that ends with
\* Internal Server Error.
C28_Witness ==
    /\ last.kind = "api"
    /\ last.response.status = 500
    /\ last.response.text = <<>>
    /\ last.outcome.kind = "throw"
    /\ EndsWith(last.outcome.message,
                <<" failed with status ", "500", ": ", "Internal Server Error">>)

\* A 500 with the body boom, which is not JSON, was answered with the status
\* error that ends with boom.
C28_WitnessNotJson ==
    /\ last.kind = "api"
    /\ last.response.status = 500
    /\ last.response.text = <<"boom">>
    /\ last.outcome.kind = "throw"
    /\ EndsWith(last.outcome.message, <<" failed with status ", "500", ": ", "boom">>)

\* The member of the response the handler of the tool reads first.
FirstRead(tool) == IF tool = "dcs-search" THEN "results" ELSE "content"

\* C29: a search or a content invocation whose request is answered with a
\* success status and an empty body ends in a tool error: callApi returned
\* undefined, the handler threw on reading a member of it, and the result is
\* an error result with the one text of that TypeError and no structured
\* content, never a successful result with empty data.  The process is
\* serving after it.
C29_EmptyBodyFails ==
    ( /\ last.kind = "tool"
      /\ last.tool \in {"dcs-search", "dcs-get-content"}
      /\ last.response # NoResponse
      /\ OkStatus(last.response)
      /\ last.response.text = <<>> ) =>
        /\ last.outcome = Return(Undef)
        /\ IsErrorResult(last.result)
        /\ ErrorText(last.result) =
              <<"Cannot read properties of ", "undefined", " (reading '",
                FirstRead(last.tool), "')">>
        /\ last.result.structuredContent = Undef
        /\ phase = "serving"
        /\ exitCode = -1

\* A search was answered with a 200 and an empty body and ended in the error
\* result Cannot read properties of undefined (reading 'results'), and the
\* server has taken the next invocation.
C29_Witness ==
    /\ last.kind = "tool" /\ last.tool = "dcs-search"
    /\ last.response.status = 200
    /\ last.response.text = <<>>
    /\ last.outcome = Return(Undef)
    /\ last.result.isError
    /\ ErrorText(last.result)[4] = "results"
    /\ phase = "serving"
    /\ Len(pending) = 1

\* The same for a content invocation, whose handler reads content.
C29_WitnessContent ==
    /\ last.kind = "tool" /\ last.tool = "dcs-get-content"
    /\ last.response.status = 200
    /\ last.response.text = <<>>
    /\ last.result.isError
    /\ ErrorText(last.result)[4] = "content"
    /\ phase = "serving"

\* The variable is set in the environment, be it to the empty string.
IsSet(v) == v # Undef

\* The process has exited at load with status 1 and the diagnostic that
\* quotes the value.
FatalFor(value) ==
    /\ phase = "exited"
    /\ exitCode = 1
    /\ Contains(stderr, <<"Invalid Docusaurus search base URL \"">> \o value \o <<"\". Set ">>)
    /\ last.kind = "none"
    /\ pending = <<>>

\* The process is serving on the base the value denotes.
ServingOn(value) ==
    /\ phase = "serving"
    /\ exitCode = -1
    /\ apiBase.origin = <<value[1], value[2]>>
    /\ \A r \in Requests : r.url.origin = <<value[1], value[2]>>

\* The process has loaded with the value as its base URL.
LoadedWith(value) == IF WellFormed(value) THEN ServingOn(value) ELSE FatalFor(value)

\* C30: once loaded, the process has taken DCS_BASE_URL when it is set, else
\* DOCUSAURUS_SEARCH_BASE_URL when it is set, else the built-in default.  A
\* variable set to the empty string is set: with DCS_BASE_URL empty the
\* process has exited with status 1 on the invalid value, whatever
\* DOCUSAURUS_SEARCH_BASE_URL holds.
C30_ResolutionOrder ==
    phase # "boot" =>
        /\ IsSet(env.DCS_BASE_URL) => LoadedWith(env.DCS_BASE_URL.s)
        /\ (~IsSet(env.DCS_BASE_URL) /\ IsSet(env.DOCUSAURUS_SEARCH_BASE_URL)) =>
              LoadedWith(env.DOCUSAURUS_SEARCH_BASE_URL.s)
        /\ (~IsSet(env.DCS_BASE_URL) /\ ~IsSet(env.DOCUSAURUS_SEARCH_BASE_URL)) =>
              ServingOn(<<"https://",
                          "docusaurus-cloudflare-search.michael-lahr-0b0.workers.dev">>)
        /\ (IsSet(env.DCS_BASE_URL) /\ env.DCS_BASE_URL.s = <<>>) =>
              /\ phase = "exited"
              /\ exitCode = 1

\* DCS_BASE_URL was set to the empty string and DOCUSAURUS_SEARCH_BASE_URL to
\* https://docs.example/api/: the process has exited with status 1, its
\* diagnostic quoting the empty value.
C30_Witness ==
    /\ env.DCS_BASE_URL = Str(<<>>)
    /\ env.DOCUSAURUS_SEARCH_BASE_URL = Str(<<"https://", "docs.example", "/", "api", "/">>)
    /\ phase = "exited"
    /\ exitCode = 1
    /\ Contains(stderr, <<"Invalid Docusaurus search base URL \"", "\". Set ">>)

\* DCS_BASE_URL was unset and DOCUSAURUS_SEARCH_BASE_URL set: a request went
\* to the origin of the second variable.
C30_WitnessSecond ==
    /\ env.DCS_BASE_URL = Undef
    /\ env.DOCUSAURUS_SEARCH_BASE_URL = Str(<<"https://", "docs.example", "/", "api", "/">>)
    /\ phase = "serving"
    /\ Len(pending) = 1
    /\ pending[1].requests[1].url.origin = <<"https://", "docs.example">>

====
